---------------------------- MODULE Spec2Model ----------------------------
(***************************************************************************)
(* io_uring fdinfo: the snapshot reporter (io_uring_show_fdinfo) and the   *)
(* stall dumper (io_uring_dump_reqs) of src/io_uring/fdinfo.c, as a state  *)
(* machine over one ring (struct io_ring_ctx), its two locks and the       *)
(* threads that call into it; and prandom_bytes_state of lib/random32.c.   *)
(*                                                                         *)
(* Output lines are tuples: the first element names the format string, the *)
(* others are the integers printed.  Arrays are functions on 0..n-1, as in *)
(* C.  Unsigned arithmetic wraps (see UintBits).                           *)
(***************************************************************************)
EXTENDS Integers, Sequences, FiniteSets, TLC

VARIABLES
    ctx,              \* struct io_ring_ctx and the shared struct io_rings
    uring_lock,       \* ctx->uring_lock: owner thread or NoOwner
    completion_lock,  \* ctx->completion_lock: owner thread or NoOwner
    waiting,          \* per thread: the lock it is blocked on, or "none"
    rpc,              \* reporter thread: position in io_uring_show_fdinfo
    l,                \* reporter thread: locals of __io_uring_show_fdinfo
    m,                \* the seq_file the reporter prints to
    acc,              \* array reads made by the reporter: <<array, index>>
    dpc,              \* dumper thread: position in its caller / io_uring_dump_reqs
    dl,               \* dumper thread: locals of io_uring_dump_reqs
    klog,             \* the kernel log (pr_warn)
    opc,              \* completion-side thread: position
    rnd,              \* lib/random32.c: a call of prandom_bytes_state
    sqt,              \* the task_struct of the SQ-poll thread
    fw,               \* mpi3mr: firmware events, their list, worker and flush
    io,               \* mpi3mr: SCSI commands, host tags and the chain bitmap
    clk               \* hi6250 stub clocks: frequency register and last call

vars == <<ctx, uring_lock, completion_lock, waiting, rpc, l, m, acc,
          dpc, dl, klog, opc, rnd, sqt, fw, io, clk>>

-----------------------------------------------------------------------------
(* Bounds of the model *)

\* number of opcodes of the model's opcode table (the kernel's enum is longer)
IORING_OP_LAST == 4

\* largest tail - head of a submission window drawn by InitSQ
MaxWindow == 5

\* width in bits of the model's unsigned int (32 in the kernel; the wrap of
\* head and tail counters is kept, at a width TLC's integers hold)
UintBits == 8

\* most overflow entries the completion-side thread appends
MaxOverflow == 2

\* lines the buffer of the seq_file holds (a page of text in the kernel)
SeqSize == 128

-----------------------------------------------------------------------------
(* Machine arithmetic *)

\* unsigned int arithmetic wraps at 2^UintBits
U32(x) == x % (2 ^ UintBits)

\* the largest unsigned int
UINT_MAX == 2 ^ UintBits - 1

\* x & mask for a mask of the form 2^k - 1
AndMask(x, mask) == x % (mask + 1)

Min(a, b) == IF a < b THEN a ELSE b

NoOwner == "none"
REP == "reporter"
DMP == "dumper"
CQT == "completer"
Threads == {REP, DMP, CQT}

Has(c, flag) == flag \in c.flags

-----------------------------------------------------------------------------
(* Per-opcode tables (opdef.h): indexed only by a checked opcode *)

\* io_issue_defs[opcode].is_128: the last opcode of the table is a 128-byte one
is_128(opcode) == opcode = IORING_OP_LAST - 1

\* the SQ scan's opcode guard, line 111: TRUE when the entry is skipped
OpcodeRejectedOffByOne(opcode) == opcode > IORING_OP_LAST
OpcodeRejected(opcode) == opcode >= IORING_OP_LAST

-----------------------------------------------------------------------------
(* The SQ scan of __io_uring_show_fdinfo, lines 93-150 *)

\* line 94 without the window: the whole ring is scanned
SqEntriesWholeRing(c, sq_head, sq_tail) == c.sq_entries

\* line 94: the number of loop iterations
SqEntries(c, sq_head, sq_tail) == Min(U32(sq_tail - sq_head), c.sq_entries)

\* line 65
SqMask(c) == c.sq_entries - 1

\* line 76-77
SqShift(c) == IF Has(c, "SQE128") THEN 1 ELSE 0

\* lines 102-105: does the scan read ctx->sq_array for this entry
UsesSqArray(c) == ~Has(c, "NO_SQARRAY")

\* lines 102-105 reading the position after `entry`
SqIdxNextEntry(c, entry) ==
    IF Has(c, "NO_SQARRAY")
    THEN AndMask(entry + 1, SqMask(c))
    ELSE c.sq_array[AndMask(entry + 1, SqMask(c))]

\* lines 102-105 without the sq_array indirection
SqIdxIgnoresArray(c, entry) == AndMask(entry, SqMask(c))

\* lines 102-105: the slot of ring position `entry`
SqIdx(c, entry) ==
    IF Has(c, "NO_SQARRAY")
    THEN AndMask(entry, SqMask(c))
    ELSE c.sq_array[AndMask(entry, SqMask(c))]

\* line 106: TRUE when the entry is skipped for its index
SqIdxRejected(c, sq_idx) == sq_idx > SqMask(c)

\* line 109: the 64-byte unit of sq_sqes the entry starts at
SqeUnit(c, sq_idx) == sq_idx * (2 ^ SqShift(c))

\* line 117: a 128-byte opcode on a ring that is neither SQE128 nor mixed
InvalidWideIgnored(c) == FALSE
InvalidWide(c) == ~Has(c, "SQE_MIXED")

\* line 123: (++sq_head & sq_mask) == 0, given the incremented sq_head
WrapsAfterIncrement(c, sq_head) == AndMask(sq_head, SqMask(c)) = 0

\* lines 131-149: the entry's line; ext is the unit the trailing words e0..e7
\* are read from (sqe + 1), or -1 for a 64-byte entry
SqeLine(c, sq_idx, opcode, sqe128) ==
    LET unit == SqeUnit(c, sq_idx)
    IN  <<"sqe", sq_idx, opcode,
          c.sq_sqes[unit].user_data,
          IF sqe128 THEN 1 ELSE 0,
          IF sqe128 THEN unit + 1 ELSE -1>>

\* One iteration of the loop at line 95 for loop counter i and the private
\* sq_head: the lines appended, the new sq_head, whether the loop is left by
\* break, and the array reads made ("opdef" stands for the per-opcode tables
\* io_issue_defs and io_uring_get_opcode).
SqIteration(c, i, sq_head) ==
    LET entry  == U32(i + sq_head)
        pos    == AndMask(entry, SqMask(c))
        sq_idx == SqIdx(c, entry)
        rd1    == IF UsesSqArray(c) THEN {<<"sq_array", pos>>} ELSE {}
        unit   == SqeUnit(c, sq_idx)
        opcode == c.sq_sqes[unit].opcode
        rd2    == rd1 \cup {<<"sq_sqes", unit>>}
        rd3    == rd2 \cup {<<"opdef", opcode>>}
        rd4    == rd3 \cup {<<"sq_sqes", unit + 1>>}
        nhead  == U32(sq_head + 1)
    IN  IF SqIdxRejected(c, sq_idx)
        THEN [lines |-> <<>>, sq_head |-> sq_head, brk |-> FALSE, rd |-> rd1]
        ELSE IF OpcodeRejected(opcode)
        THEN [lines |-> <<>>, sq_head |-> sq_head, brk |-> FALSE, rd |-> rd2]
        ELSE IF SqShift(c) = 1
        THEN [lines |-> <<SqeLine(c, sq_idx, opcode, TRUE)>>,
              sq_head |-> sq_head, brk |-> FALSE,
              rd |-> rd4]
        ELSE IF is_128(opcode)
        THEN IF InvalidWide(c)
             THEN [lines |-> << <<"invalid_sqe", sq_idx>> >>,
                   sq_head |-> sq_head, brk |-> TRUE, rd |-> rd3]
             ELSE IF WrapsAfterIncrement(c, nhead)
             THEN [lines |-> << <<"corrupted_sqe", sq_idx>> >>,
                   sq_head |-> nhead, brk |-> TRUE, rd |-> rd3]
             ELSE [lines |-> <<SqeLine(c, sq_idx, opcode, TRUE)>>,
                   sq_head |-> nhead, brk |-> FALSE, rd |-> rd4]
        ELSE [lines |-> <<SqeLine(c, sq_idx, opcode, FALSE)>>,
              sq_head |-> sq_head, brk |-> FALSE, rd |-> rd3]


-----------------------------------------------------------------------------
(* The CQ scan of __io_uring_show_fdinfo, lines 151-169 *)

\* line 65
CqMask(c) == c.cq_entries - 1

\* line 152: the loop condition, an unsigned comparison
CqLoopCond(cq_head, cq_tail) == cq_head < cq_tail

\* line 157
IsCqe32(c, cqe) == cqe.flags = 1 \/ Has(c, "CQE32")

\* lines 159-165: the text printed for one entry; the format at line 163 ends
\* in a newline and line 165 prints one more
CqeLines(c, slot, cqe) ==
    IF IsCqe32(c, cqe)
    THEN << <<"cqe", slot, cqe.user_data, cqe.res, cqe.flags, 1>>, <<"blank">> >>
    ELSE << <<"cqe", slot, cqe.user_data, cqe.res, cqe.flags, 0>> >>

\* lines 166-168
CqAdvance(c, cqe, cq_head) ==
    IF IsCqe32(c, cqe) THEN U32(cq_head + 2) ELSE U32(cq_head + 1)

-----------------------------------------------------------------------------
(* Tables and lists printed by __io_uring_show_fdinfo, lines 201-244 *)

RECURSIVE FileLinesWithPlaceholder(_, _)
\* lines 202-212 printing a placeholder line for a slot without a file
FileLinesWithPlaceholder(c, i) ==
    IF i >= c.file_table_nr THEN <<>>
    ELSE << (IF c.file_table[i] # 0
             THEN <<"file", i, c.file_table[i]>>
             ELSE <<"file_none", i>>) >> \o FileLinesWithPlaceholder(c, i + 1)

RECURSIVE FileLines(_, _)
\* lines 202-212: slots i.. of the registered-file table; 0 is an empty slot
FileLines(c, i) ==
    IF i >= c.file_table_nr THEN <<>>
    ELSE (IF c.file_table[i] # 0
          THEN << <<"file", i, c.file_table[i]>> >>
          ELSE <<>>) \o FileLines(c, i + 1)

RECURSIVE BufLinesSkipEmpty(_, _)
\* lines 214-223 printing nothing for a slot without a buffer
BufLinesSkipEmpty(c, i) ==
    IF i >= c.buf_table_nr THEN <<>>
    ELSE (IF c.buf_table[i] > 0
          THEN << <<"buf", i, c.buf_table[i] * 4096, c.buf_table[i]>> >>
          ELSE <<>>) \o BufLinesSkipEmpty(c, i + 1)

RECURSIVE BufLines(_, _)
\* lines 214-223: slots i.. of the registered-buffer table; 0 is an empty
\* slot, -1 a node without a buffer, b > 0 a buffer at b * 4096 of length b
BufLines(c, i) ==
    IF i >= c.buf_table_nr THEN <<>>
    ELSE << (IF c.buf_table[i] > 0
             THEN <<"buf", i, c.buf_table[i] * 4096, c.buf_table[i]>>
             ELSE <<"buf_none", i>>) >> \o BufLines(c, i + 1)

\* task_work_pending(task)
task_work_pending(c, task) == c.tasks[task].task_works # <<>>

\* 1U << ctx->cancel_table.hash_bits
NrBuckets(c) == 2 ^ c.hash_bits

\* every request of the poll hash, bucket by bucket, chain order
RECURSIVE PollReqs(_, _)
PollReqs(c, i) ==
    IF i >= NrBuckets(c) THEN <<>> ELSE c.cancel_table[i] \o PollReqs(c, i + 1)

\* lines 226-233: a request without a task context is dereferenced all the same
PollDerefsNull(c) == \E k \in 1..Len(PollReqs(c, 0)) : PollReqs(c, 0)[k].tctx = 0

RECURSIVE ShowPollLines(_, _)
ShowPollLines(c, reqs) ==
    IF reqs = <<>> \/ Head(reqs).tctx = 0 THEN <<>>
    ELSE << <<"poll", Head(reqs).opcode,
              IF task_work_pending(c, Head(reqs).tctx) THEN 1 ELSE 0>> >>
         \o ShowPollLines(c, Tail(reqs))

\* lines 238-241: the line of one overflow entry
OverflowLine(ocqe) == <<"ocqe", ocqe.user_data, ocqe.res, ocqe.flags>>

RECURSIVE OverflowLines(_)
\* lines 237-243: the lines of a list that stays as it is during the walk
OverflowLines(list) ==
    IF list = <<>> THEN <<>>
    ELSE <<OverflowLine(Head(list))>> \o OverflowLines(Tail(list))

\* lines 22-53: the NAPI block, compiled in with CONFIG_NET_RX_BUSY_POLL
common_tracking_show_fdinfo(c, strategy) ==
    << <<"NAPI_enabled">>, <<"napi_tracking", strategy>>,
       <<"napi_busy_poll_dt", c.napi_busy_poll_dt>>,
       <<"napi_prefer_busy_poll", IF c.napi_prefer_busy_poll THEN 1 ELSE 0>> >>

napi_show_fdinfo(c) ==
    IF ~c.config_net_rx_busy_poll THEN <<>>
    ELSE IF c.napi_track_mode = 0 THEN << <<"NAPI_disabled">> >>
    ELSE IF c.napi_track_mode = 1 THEN common_tracking_show_fdinfo(c, 1)
    ELSE IF c.napi_track_mode = 2 THEN common_tracking_show_fdinfo(c, 2)
    ELSE << <<"NAPI_unknown", c.napi_track_mode>> >>


-----------------------------------------------------------------------------
(* The reporter thread: io_uring_show_fdinfo and __io_uring_show_fdinfo *)

\* seq_printf(m, ...): the text is added while the buffer of the seq_file has
\* room for it; a full buffer takes nothing more (seq_file marks the overflow
\* and its caller repeats the whole show with a larger buffer)
seq_printf(lines) ==
    m' = IF Len(m) + Len(lines) <= SeqSize THEN m \o lines ELSE m

Wait(t, lock) == waiting' = [waiting EXCEPT ![t] = lock]

\* what the reporter never touches
DumperUnchanged == UNCHANGED <<dpc, dl, klog, opc, rnd, fw, io, clk>>

\* line 359: mutex_trylock() succeeds
mutex_trylock_always(lock) == TRUE
mutex_trylock(lock) == lock = NoOwner

\* lines 350-363, with mutex_lock() in place of mutex_trylock()
io_uring_show_fdinfo_blocking ==
    /\ rpc = "call"
    /\ IF uring_lock = NoOwner
       THEN /\ uring_lock' = REP
            /\ rpc' = "cursors"
            /\ Wait(REP, "none")
       ELSE /\ Wait(REP, "uring_lock")
            /\ UNCHANGED <<uring_lock, rpc>>
    /\ UNCHANGED <<ctx, completion_lock, l, m, acc>>
    /\ UNCHANGED sqt
    /\ DumperUnchanged

\* lines 350-363: the entry point, up to the call of __io_uring_show_fdinfo
io_uring_show_fdinfo ==
    /\ rpc = "call"
    /\ IF mutex_trylock(uring_lock)
       THEN /\ uring_lock' = REP
            /\ rpc' = "cursors"
       ELSE /\ rpc' = "done"
            /\ UNCHANGED uring_lock
    /\ UNCHANGED <<ctx, completion_lock, waiting, l, m, acc>>
    /\ UNCHANGED sqt
    /\ DumperUnchanged

\* lines 64-94: the cursors are read once, the header and the SQE count are
\* printed, the iteration count is fixed
Show_Cursors ==
    /\ rpc = "cursors"
    /\ LET sq_head == ctx.sq_head
           sq_tail == ctx.sq_tail
           cq_head == ctx.cq_head
           cq_tail == ctx.cq_tail
       IN  /\ l' = [l EXCEPT !.sq_head = sq_head, !.sq_tail = sq_tail,
                             !.cq_head = cq_head, !.cq_tail = cq_tail,
                             !.sq_entries = SqEntries(ctx, sq_head, sq_tail),
                             !.i = 0]
           /\ seq_printf(<< <<"SqMask", SqMask(ctx)>>, <<"SqHead", sq_head>>,
                       <<"SqTail", sq_tail>>,
                       <<"CachedSqHead", ctx.cached_sq_head>>,
                       <<"CqMask", CqMask(ctx)>>, <<"CqHead", cq_head>>,
                       <<"CqTail", cq_tail>>,
                       <<"CachedCqTail", ctx.cached_cq_tail>>,
                       <<"SQEs", U32(sq_tail - sq_head)>> >>)
    /\ rpc' = "sq_loop"
    /\ UNCHANGED <<ctx, uring_lock, completion_lock, waiting, acc>>
    /\ UNCHANGED sqt
    /\ DumperUnchanged

\* lines 95-150 with a return in place of the break at lines 121 and 127
Show_SqLoop_aborting ==
    /\ rpc = "sq_loop"
    /\ IF l.i < l.sq_entries
       THEN LET it == SqIteration(ctx, l.i, l.sq_head)
            IN  /\ seq_printf(it.lines)
                /\ acc' = acc \cup it.rd
                /\ l' = [l EXCEPT !.sq_head = it.sq_head, !.i = l.i + 1,
                                  !.brk = it.brk]
                /\ rpc' = IF it.brk THEN "unlock" ELSE "sq_loop"
       ELSE /\ rpc' = "cq_count"
            /\ UNCHANGED <<m, acc, l>>
    /\ UNCHANGED <<ctx, uring_lock, completion_lock, waiting>>
    /\ UNCHANGED sqt
    /\ DumperUnchanged

\* lines 95-151: one iteration of the SQ loop, or its exit and the CQE count
Show_SqLoop ==
    /\ rpc = "sq_loop"
    /\ IF l.i < l.sq_entries
       THEN LET it == SqIteration(ctx, l.i, l.sq_head)
            IN  /\ seq_printf(it.lines)
                /\ acc' = acc \cup it.rd
                /\ l' = [l EXCEPT !.sq_head = it.sq_head, !.i = l.i + 1,
                                  !.brk = it.brk]
                /\ rpc' = IF it.brk THEN "cq_count" ELSE "sq_loop"
       ELSE /\ rpc' = "cq_count"
            /\ UNCHANGED <<m, acc, l>>
    /\ UNCHANGED <<ctx, uring_lock, completion_lock, waiting>>
    /\ UNCHANGED sqt
    /\ DumperUnchanged

\* line 151
Show_CqCount ==
    /\ rpc = "cq_count"
    /\ seq_printf(<< <<"CQEs", U32(l.cq_tail - l.cq_head)>> >>)
    /\ rpc' = "cq_loop"
    /\ UNCHANGED <<ctx, uring_lock, completion_lock, waiting, l, acc>>
    /\ UNCHANGED sqt
    /\ DumperUnchanged

\* lines 152-169 with the advanced head written back to the shared ring
Show_CqLoop_consuming ==
    /\ rpc = "cq_loop"
    /\ IF CqLoopCond(l.cq_head, l.cq_tail)
       THEN LET slot == AndMask(l.cq_head, CqMask(ctx))
                cqe  == ctx.cqes[slot]
            IN  /\ seq_printf(CqeLines(ctx, slot, cqe))
                /\ acc' = acc \cup {<<"cqes", slot>>}
                /\ l' = [l EXCEPT !.cq_head = CqAdvance(ctx, cqe, l.cq_head)]
                /\ ctx' = [ctx EXCEPT !.cq_head = CqAdvance(ctx, cqe, l.cq_head)]
                /\ rpc' = "cq_loop"
       ELSE /\ rpc' = "sqpoll"
            /\ UNCHANGED <<m, acc, l, ctx>>
    /\ UNCHANGED <<uring_lock, completion_lock, waiting>>
    /\ UNCHANGED sqt
    /\ DumperUnchanged

\* lines 152-169: one iteration of the CQ loop, or its exit
Show_CqLoop ==
    /\ rpc = "cq_loop"
    /\ IF CqLoopCond(l.cq_head, l.cq_tail)
       THEN LET slot == AndMask(l.cq_head, CqMask(ctx))
                cqe  == ctx.cqes[slot]
            IN  /\ seq_printf(CqeLines(ctx, slot, cqe))
                /\ acc' = acc \cup {<<"cqes", slot>>}
                /\ l' = [l EXCEPT !.cq_head = CqAdvance(ctx, cqe, l.cq_head)]
                /\ rpc' = "cq_loop"
       ELSE /\ rpc' = "sqpoll"
            /\ UNCHANGED <<m, acc, l>>
    /\ UNCHANGED <<ctx, uring_lock, completion_lock, waiting>>
    /\ UNCHANGED sqt
    /\ DumperUnchanged

\* get_task_struct(tsk), put_task_struct(tsk): the usage count of the task
\* goes up by one, down by one; the task_struct is freed when it reaches zero
get_task_struct(t) == [t EXCEPT !.usage = t.usage + 1]
put_task_struct(t) ==
    [t EXCEPT !.usage = t.usage - 1, !.freed = t.freed \/ t.usage - 1 <= 0]

\* lines 171-176 without rcu_read_lock()
Show_SqPollDeref_norcu ==
    /\ rpc = "sqpoll"
    /\ IF Has(ctx, "SQPOLL")
       THEN /\ l' = [l EXCEPT !.tsk = ctx.sq_data.thread]
            /\ rpc' = "sqpoll_test"
       ELSE /\ rpc' = "thread_lines"
            /\ UNCHANGED l
    /\ UNCHANGED <<ctx, uring_lock, completion_lock, waiting, m, acc, sqt>>
    /\ DumperUnchanged

\* lines 171-176: on a ring with SQPOLL the thread enters the RCU read-side
\* section and reads sq->thread
Show_SqPollDeref ==
    /\ rpc = "sqpoll"
    /\ IF Has(ctx, "SQPOLL")
       THEN /\ l' = [l EXCEPT !.rcu = l.rcu + 1, !.tsk = ctx.sq_data.thread]
            /\ rpc' = "sqpoll_test"
       ELSE /\ rpc' = "thread_lines"
            /\ UNCHANGED l
    /\ UNCHANGED <<ctx, uring_lock, completion_lock, waiting, m, acc, sqt>>
    /\ DumperUnchanged

\* lines 181-185 without the test of tsk at line 181
Show_SqPollGet_unchecked ==
    /\ rpc = "sqpoll_test"
    /\ sqt' = get_task_struct(sqt)
    /\ l' = [l EXCEPT !.tsk_refs = l.tsk_refs + 1, !.rcu = l.rcu - 1,
                      !.uaf = l.uaf \/ sqt.freed]
    /\ rpc' = "sqpoll_usec"
    /\ UNCHANGED <<ctx, uring_lock, completion_lock, waiting, m, acc>>
    /\ DumperUnchanged

\* lines 181-185 and 192-194 without the rcu_read_unlock() of line 193
Show_SqPollGet_nounlock ==
    /\ rpc = "sqpoll_test"
    /\ IF l.tsk # 0
       THEN /\ sqt' = get_task_struct(sqt)
            /\ l' = [l EXCEPT !.tsk_refs = l.tsk_refs + 1,
                              !.rcu = l.rcu - 1,
                              !.uaf = l.uaf \/ sqt.freed]
            /\ rpc' = "sqpoll_usec"
       ELSE /\ rpc' = "thread_lines"
            /\ UNCHANGED <<l, sqt>>
    /\ UNCHANGED <<ctx, uring_lock, completion_lock, waiting, m, acc>>
    /\ DumperUnchanged

\* lines 181-185 and 192-194: a thread that is there gets a reference; the
\* RCU read-side section is left on both branches
Show_SqPollGet ==
    /\ rpc = "sqpoll_test"
    /\ IF l.tsk # 0
       THEN /\ sqt' = get_task_struct(sqt)
            /\ l' = [l EXCEPT !.tsk_refs = l.tsk_refs + 1,
                              !.rcu = l.rcu - 1,
                              !.uaf = l.uaf \/ sqt.freed]
            /\ rpc' = "sqpoll_usec"
       ELSE /\ l' = [l EXCEPT !.rcu = l.rcu - 1]
            /\ rpc' = "thread_lines"
            /\ UNCHANGED sqt
    /\ UNCHANGED <<ctx, uring_lock, completion_lock, waiting, m, acc>>
    /\ DumperUnchanged

\* lines 186-191: the CPU time of the task is read, the reference dropped,
\* the sq_data fields read
Show_SqPollUsec ==
    /\ rpc = "sqpoll_usec"
    /\ sqt' = put_task_struct(sqt)
    /\ l' = [l EXCEPT !.tsk_refs = l.tsk_refs - 1,
                      !.uaf = l.uaf \/ sqt.freed,
                      !.sq_pid = ctx.sq_data.task_pid,
                      !.sq_cpu = ctx.sq_data.sq_cpu,
                      !.sq_total_time = ctx.sq_data.cpu_usec,
                      !.sq_work_time = ctx.sq_data.work_time]
    /\ rpc' = "thread_lines"
    /\ UNCHANGED <<ctx, uring_lock, completion_lock, waiting, m, acc>>
    /\ DumperUnchanged

\* lines 197-223 with the buffer table printed before the file table
Show_Tables_buffers_first ==
    /\ rpc = "thread_lines"
    /\ seq_printf(<< <<"SqThread", l.sq_pid>>, <<"SqThreadCpu", l.sq_cpu>>,
                <<"SqTotalTime", l.sq_total_time>>,
                <<"SqWorkTime", l.sq_work_time>>,
                <<"UserBufs", ctx.buf_table_nr>> >>
             \o BufLines(ctx, 0)
             \o << <<"UserFiles", ctx.file_table_nr>> >>
             \o FileLines(ctx, 0))
    /\ rpc' = "poll_list"
    /\ UNCHANGED <<ctx, uring_lock, completion_lock, waiting, l, acc>>
    /\ UNCHANGED sqt
    /\ DumperUnchanged

\* lines 197-223: the four SQ-poll lines, the file table, the buffer table
Show_Tables ==
    /\ rpc = "thread_lines"
    /\ seq_printf(<< <<"SqThread", l.sq_pid>>, <<"SqThreadCpu", l.sq_cpu>>,
                <<"SqTotalTime", l.sq_total_time>>,
                <<"SqWorkTime", l.sq_work_time>>,
                <<"UserFiles", ctx.file_table_nr>> >>
             \o FileLines(ctx, 0)
             \o << <<"UserBufs", ctx.buf_table_nr>> >>
             \o BufLines(ctx, 0))
    /\ rpc' = "poll_list"
    /\ UNCHANGED <<ctx, uring_lock, completion_lock, waiting, l, acc>>
    /\ UNCHANGED sqt
    /\ DumperUnchanged

\* lines 225-235: the poll list; req->tctx->task is read without a check, so
\* a request without a task context stops the thread in a NULL dereference
Show_PollList ==
    /\ rpc = "poll_list"
    /\ IF PollDerefsNull(ctx)
       THEN /\ seq_printf(<< <<"PollList">> >> \o ShowPollLines(ctx, PollReqs(ctx, 0)))
            /\ rpc' = "oops"
       ELSE /\ seq_printf(<< <<"PollList">> >> \o ShowPollLines(ctx, PollReqs(ctx, 0))
                     \o << <<"CqOverflowList">> >>)
            /\ rpc' = "ovf_lock"
    /\ UNCHANGED <<ctx, uring_lock, completion_lock, waiting, l, acc>>
    /\ UNCHANGED sqt
    /\ DumperUnchanged

\* line 236 left out: the walk starts without completion_lock
Show_OvfLock_lockless ==
    /\ rpc = "ovf_lock"
    /\ rpc' = "ovf_list"
    /\ UNCHANGED <<ctx, uring_lock, completion_lock, waiting, l, m, acc>>
    /\ UNCHANGED sqt
    /\ DumperUnchanged

\* line 236: spin_lock(&ctx->completion_lock) spins while another thread
\* holds the lock
Show_OvfLock ==
    /\ rpc = "ovf_lock"
    /\ IF completion_lock = NoOwner
       THEN /\ completion_lock' = REP
            /\ Wait(REP, "none")
            /\ rpc' = "ovf_list"
       ELSE /\ Wait(REP, "completion_lock")
            /\ UNCHANGED <<completion_lock, rpc>>
    /\ UNCHANGED <<ctx, uring_lock, l, m, acc>>
    /\ UNCHANGED sqt
    /\ DumperUnchanged

\* lines 237-243: one turn of list_for_each_entry(), or its exit; l.ocqe
\* counts the entries the walk has passed
Show_OvfList ==
    /\ rpc = "ovf_list"
    /\ IF l.ocqe < Len(ctx.cq_overflow_list)
       THEN /\ seq_printf(<<OverflowLine(ctx.cq_overflow_list[l.ocqe + 1])>>)
            /\ l' = [l EXCEPT !.ocqe = l.ocqe + 1]
            /\ rpc' = "ovf_list"
       ELSE /\ rpc' = "ovf_unlock"
            /\ UNCHANGED <<m, l>>
    /\ UNCHANGED <<ctx, uring_lock, completion_lock, waiting, acc>>
    /\ UNCHANGED sqt
    /\ DumperUnchanged

\* lines 244-246 without the spin_unlock() of line 244
Show_OvfUnlock_leaking ==
    /\ rpc = "ovf_unlock"
    /\ seq_printf(napi_show_fdinfo(ctx))
    /\ rpc' = "unlock"
    /\ UNCHANGED <<ctx, uring_lock, completion_lock, waiting, l, acc>>
    /\ UNCHANGED sqt
    /\ DumperUnchanged

\* lines 244-246
Show_OvfUnlock ==
    /\ rpc = "ovf_unlock"
    /\ completion_lock' = NoOwner
    /\ seq_printf(napi_show_fdinfo(ctx))
    /\ rpc' = "unlock"
    /\ UNCHANGED <<ctx, uring_lock, waiting, l, acc>>
    /\ UNCHANGED sqt
    /\ DumperUnchanged

\* line 361
Show_Unlock ==
    /\ rpc = "unlock"
    /\ uring_lock' = NoOwner
    /\ rpc' = "done"
    /\ UNCHANGED <<ctx, completion_lock, waiting, l, m, acc>>
    /\ UNCHANGED sqt
    /\ DumperUnchanged

\* the steps of __io_uring_show_fdinfo
ShowSteps ==
    \/ Show_Cursors
    \/ Show_SqLoop
    \/ Show_CqCount
    \/ Show_CqLoop
    \/ Show_SqPollDeref
    \/ Show_SqPollGet
    \/ Show_SqPollUsec
    \/ Show_Tables
    \/ Show_PollList
    \/ Show_OvfLock
    \/ Show_OvfList
    \/ Show_OvfUnlock
    \/ Show_Unlock

Reporter == io_uring_show_fdinfo \/ ShowSteps


-----------------------------------------------------------------------------
(* The dumper thread: a caller and io_uring_dump_reqs *)

pr_warn(lines) == klog' = klog \o lines

ReporterUnchanged == UNCHANGED <<rpc, l, m, acc, rnd, sqt, fw, io, clk>>

\* ctx->flags as the word printed at line 293 (bit positions of the uapi header)
FlagsWord(c) ==
    (IF Has(c, "SQPOLL") THEN 2 ELSE 0) + (IF Has(c, "SQE128") THEN 1024 ELSE 0)
    + (IF Has(c, "CQE32") THEN 2048 ELSE 0)
    + (IF Has(c, "NO_SQARRAY") THEN 65536 ELSE 0)
    + (IF Has(c, "SQE_MIXED") THEN 524288 ELSE 0)

\* lines 248-257: one request's line; kind is the prefix
io_uring_dump_req(c, kind, req) ==
    <<kind, req.opcode, req.flags, req.user_data, req.refs, req.poll_refs,
      IF req.tctx # 0 THEN c.tasks[req.tctx].pid ELSE -1,
      req.cancel_seq, req.cancel_seq_set, req.func>>

RECURSIVE DumpReqLines(_, _, _)
DumpReqLines(c, kind, reqs) ==
    IF reqs = <<>> THEN <<>>
    ELSE <<io_uring_dump_req(c, kind, Head(reqs))>>
         \o DumpReqLines(c, kind, Tail(reqs))

\* lines 259-269 without the llist_empty() test of line 263
io_uring_dump_llist_always(c, name, list) ==
    << <<name>> >> \o DumpReqLines(c, "req", list)

\* lines 259-269
io_uring_dump_llist(c, name, list) ==
    IF list = <<>> THEN <<>>
    ELSE << <<name>> >> \o DumpReqLines(c, "req", list)

RECURSIVE io_uring_dump_task_works(_)
\* lines 271-277
io_uring_dump_task_works(works) ==
    IF works = <<>> THEN <<>>
    ELSE << <<"task_work", Head(works)>> >>
         \o io_uring_dump_task_works(Tail(works))

RECURSIVE DumpPollLines_no_task_works(_, _)
\* lines 313-322 without the call of io_uring_dump_task_works at 319-320
DumpPollLines_no_task_works(c, reqs) ==
    IF reqs = <<>> THEN <<>>
    ELSE <<io_uring_dump_req(c, "poll_req", Head(reqs))>>
         \o DumpPollLines_no_task_works(c, Tail(reqs))

RECURSIVE DumpPollLines(_, _)
\* lines 313-322
DumpPollLines(c, reqs) ==
    IF reqs = <<>> THEN <<>>
    ELSE LET req == Head(reqs)
         IN  <<io_uring_dump_req(c, "poll_req", req)>>
             \o (IF req.tctx # 0 /\ task_work_pending(c, req.tctx)
                 THEN io_uring_dump_task_works(c.tasks[req.tctx].task_works)
                 ELSE <<>>)
             \o DumpPollLines(c, Tail(reqs))

\* line 291: lockdep_assert_held(&ctx->uring_lock) for the calling thread
lockdep_assert_held(t) == uring_lock = t

\* the caller takes the ring's mutex before it calls the dumper
Caller_Lock ==
    /\ dpc = "idle"
    /\ uring_lock = NoOwner
    /\ uring_lock' = DMP
    /\ dpc' = "locked"
    /\ UNCHANGED <<ctx, completion_lock, waiting, dl, klog, opc>>
    /\ ReporterUnchanged

\* lines 283-309 without the assertion of line 291
io_uring_dump_reqs_unchecked ==
    /\ dpc \in {"idle", "locked"}
    /\ dl' = [dl EXCEPT !.held = lockdep_assert_held(DMP)]
    /\ pr_warn(<< <<"dump", FlagsWord(ctx)>> >>)
    /\ dpc' = "d_poll"
    /\ UNCHANGED <<ctx, uring_lock, completion_lock, waiting, opc>>
    /\ ReporterUnchanged

\* lines 283-309: the assertion, the header, the cursors and the counters
io_uring_dump_reqs ==
    /\ dpc \in {"idle", "locked"}
    /\ dl' = [dl EXCEPT !.held = lockdep_assert_held(DMP)]
    /\ IF lockdep_assert_held(DMP)
       THEN /\ pr_warn(<< <<"dump", FlagsWord(ctx)>> >>
                  \o (IF ctx.rings
                      THEN << <<"SQ", ctx.sq_head, ctx.sq_tail, ctx.cached_sq_head>>,
                              <<"CQ", ctx.cq_head, ctx.cq_tail, ctx.cached_cq_tail>> >>
                      ELSE <<>>)
                  \o << <<"nr_req_allocated", ctx.nr_req_allocated>>,
                        <<"cancel_seq", ctx.cancel_seq>> >>)
            /\ dpc' = "d_poll"
       ELSE /\ dpc' = "assert_failed"
            /\ UNCHANGED klog
    /\ UNCHANGED <<ctx, uring_lock, completion_lock, waiting, opc>>
    /\ ReporterUnchanged

\* lines 312-322
Dump_PollList ==
    /\ dpc = "d_poll"
    /\ pr_warn(<< <<"PollList">> >> \o DumpPollLines(ctx, PollReqs(ctx, 0)))
    /\ dpc' = "d_llists"
    /\ UNCHANGED <<ctx, uring_lock, completion_lock, waiting, dl, opc>>
    /\ ReporterUnchanged

\* lines 325-334 with the fallback list dumped before the retry list
Dump_Lists_fallback_first ==
    /\ dpc = "d_llists"
    /\ pr_warn(io_uring_dump_llist(ctx, "work_llist", ctx.work_llist)
               \o io_uring_dump_llist(ctx, "fallback_llist", ctx.fallback_llist)
               \o io_uring_dump_llist(ctx, "retry_llist", ctx.retry_llist)
               \o io_uring_dump_llist(ctx, "defer_list", ctx.defer_list))
    /\ dpc' = "d_ovf_lock"
    /\ UNCHANGED <<ctx, uring_lock, completion_lock, waiting, dl, opc>>
    /\ ReporterUnchanged

\* lines 325-334: the three task-work lists, then the defer list
Dump_Lists ==
    /\ dpc = "d_llists"
    /\ pr_warn(io_uring_dump_llist(ctx, "work_llist", ctx.work_llist)
               \o io_uring_dump_llist(ctx, "retry_llist", ctx.retry_llist)
               \o io_uring_dump_llist(ctx, "fallback_llist", ctx.fallback_llist)
               \o io_uring_dump_llist(ctx, "defer_list", ctx.defer_list))
    /\ dpc' = "d_ovf_lock"
    /\ UNCHANGED <<ctx, uring_lock, completion_lock, waiting, dl, opc>>
    /\ ReporterUnchanged

\* lines 337-338
Dump_OvfLock ==
    /\ dpc = "d_ovf_lock"
    /\ IF completion_lock = NoOwner
       THEN /\ completion_lock' = DMP
            /\ Wait(DMP, "none")
            /\ dl' = [dl EXCEPT !.count = 0]
            /\ dpc' = "d_ovf_count"
       ELSE /\ Wait(DMP, "completion_lock")
            /\ UNCHANGED <<completion_lock, dl, dpc>>
    /\ UNCHANGED <<ctx, uring_lock, klog, opc>>
    /\ ReporterUnchanged

\* lines 339-341 without the spin_unlock() of line 341
Dump_OvfCount_holding ==
    /\ dpc = "d_ovf_count"
    /\ dl' = [dl EXCEPT !.count = Len(ctx.cq_overflow_list)]
    /\ dpc' = "d_ovf_print"
    /\ UNCHANGED <<ctx, uring_lock, completion_lock, waiting, klog, opc>>
    /\ ReporterUnchanged

\* lines 339-341
Dump_OvfCount ==
    /\ dpc = "d_ovf_count"
    /\ dl' = [dl EXCEPT !.count = Len(ctx.cq_overflow_list)]
    /\ completion_lock' = NoOwner
    /\ dpc' = "d_ovf_print"
    /\ UNCHANGED <<ctx, uring_lock, waiting, klog, opc>>
    /\ ReporterUnchanged

\* lines 342-344
Dump_OvfPrint ==
    /\ dpc = "d_ovf_print"
    /\ pr_warn(IF dl.count # 0 THEN << <<"cq_overflow_list", dl.count>> >> ELSE <<>>)
    /\ dpc' = "d_return"
    /\ UNCHANGED <<ctx, uring_lock, completion_lock, waiting, dl, opc>>
    /\ ReporterUnchanged

\* back in the caller, which drops the mutex it took
Caller_Unlock ==
    /\ dpc = "d_return"
    /\ uring_lock' = IF uring_lock = DMP THEN NoOwner ELSE uring_lock
    /\ dpc' = "done"
    /\ UNCHANGED <<ctx, completion_lock, waiting, dl, klog, opc>>
    /\ ReporterUnchanged

\* the steps of io_uring_dump_reqs after its entry
DumpSteps ==
    \/ Dump_PollList
    \/ Dump_Lists
    \/ Dump_OvfLock
    \/ Dump_OvfCount
    \/ Dump_OvfPrint

Dumper == Caller_Lock \/ io_uring_dump_reqs \/ DumpSteps \/ Caller_Unlock

-----------------------------------------------------------------------------
(* The completion side: a thread that posts overflow completions under the *)
(* completion lock, which it takes without the ring's mutex                *)

Cq_Lock ==
    /\ opc = "idle"
    /\ completion_lock = NoOwner
    /\ completion_lock' = CQT
    /\ opc' = "locked"
    /\ UNCHANGED <<ctx, uring_lock, waiting, dpc, dl, klog>>
    /\ ReporterUnchanged

Cq_Overflow ==
    /\ opc = "locked"
    /\ Len(ctx.cq_overflow_list) < MaxOverflow
    /\ ctx' = [ctx EXCEPT !.cq_overflow_list =
                 Append(@, [user_data |-> 900 + Len(@), res |-> 0, flags |-> 0])]
    /\ UNCHANGED <<uring_lock, completion_lock, waiting, dpc, dl, klog, opc>>
    /\ ReporterUnchanged

\* a flush moves the first overflow entry back to the CQ ring
Cq_Flush ==
    /\ opc = "locked"
    /\ ctx.cq_overflow_list # <<>>
    /\ ctx' = [ctx EXCEPT !.cq_overflow_list = Tail(@)]
    /\ UNCHANGED <<uring_lock, completion_lock, waiting, dpc, dl, klog, opc>>
    /\ ReporterUnchanged

Cq_Unlock ==
    /\ opc = "locked"
    /\ completion_lock' = NoOwner
    /\ opc' = "idle"
    /\ UNCHANGED <<ctx, uring_lock, waiting, dpc, dl, klog>>
    /\ ReporterUnchanged

Completer == Cq_Lock \/ Cq_Overflow \/ Cq_Flush \/ Cq_Unlock


-----------------------------------------------------------------------------
(* The SQ-poll thread, which may exit while the reporter runs: it clears    *)
(* sq->thread, and its task_struct loses the thread's own user once every   *)
(* RCU read-side section that could have seen the pointer is over           *)

\* what the exit of the SQ-poll thread leaves alone
SqThreadUnchanged ==
    UNCHANGED <<uring_lock, completion_lock, waiting, rpc, l, m, acc,
                dpc, dl, klog, opc, rnd, fw, io, clk>>

\* the thread exits: rcu_assign_pointer(sqd->thread, NULL)
SqThread_Exit ==
    /\ ctx.sq_data.thread # 0
    /\ ctx' = [ctx EXCEPT !.sq_data.thread = 0]
    /\ sqt' = [sqt EXCEPT !.exited = TRUE]
    /\ SqThreadUnchanged

\* after a grace period (no reader is in a read-side section) the thread's
\* own user of the task_struct is dropped
SqThread_Release ==
    /\ sqt.exited /\ ~sqt.released
    /\ l.rcu <= 0
    /\ sqt' = [put_task_struct(sqt) EXCEPT !.released = TRUE]
    /\ UNCHANGED ctx
    /\ SqThreadUnchanged

SqThread == SqThread_Exit \/ SqThread_Release

-----------------------------------------------------------------------------
(* Rings *)

Req(op, ud, tctx) ==
    [opcode |-> op, flags |-> 0, user_data |-> ud, refs |-> 1, poll_refs |-> 1,
     tctx |-> tctx, cancel_seq |-> 0, cancel_seq_set |-> 0, func |-> op + 1]

\* sq_sqes of a ring of n entries whose entry k has opcode ops[k]: n units of
\* 64 bytes, or 2n with SQE128 (each entry followed by its trailing half)
SqSqes(n, shift, ops) ==
    [u \in 0..(n * (2 ^ shift) - 1) |->
        IF shift = 0 THEN [opcode |-> ops[u], user_data |-> 100 + u]
        ELSE IF u % 2 = 0 THEN [opcode |-> ops[u \div 2], user_data |-> 100 + u]
        ELSE [opcode |-> 0, user_data |-> 0]]

\* an idle ring of four entries with nothing registered
BaseCtx ==
    [flags |-> {}, sq_entries |-> 4, cq_entries |-> 4, rings |-> TRUE,
     sq_head |-> 0, sq_tail |-> 0, cq_head |-> 0, cq_tail |-> 0,
     cached_sq_head |-> 0, cached_cq_tail |-> 0,
     sq_array |-> [i \in 0..3 |-> i],
     sq_sqes |-> SqSqes(4, 0, [k \in 0..3 |-> 0]),
     cqes |-> [s \in 0..3 |-> [user_data |-> 200 + s, res |-> 0, flags |-> 0]],
     sq_data |-> [thread |-> 0, task_pid |-> 77, sq_cpu |-> 1,
                  cpu_usec |-> 5, work_time |-> 3],
     file_table_nr |-> 0, file_table |-> <<>>,
     buf_table_nr |-> 0, buf_table |-> <<>>,
     hash_bits |-> 1, cancel_table |-> [b \in 0..1 |-> <<>>],
     tasks |-> [t \in 1..2 |-> [pid |-> 40 + t,
                                task_works |-> IF t = 1 THEN <<7, 8>> ELSE <<>>]],
     work_llist |-> <<>>, retry_llist |-> <<>>, fallback_llist |-> <<>>,
     defer_list |-> <<>>, cq_overflow_list |-> <<>>,
     nr_req_allocated |-> 0, cancel_seq |-> 0,
     config_net_rx_busy_poll |-> FALSE, napi_track_mode |-> 0,
     napi_busy_poll_dt |-> 0, napi_prefer_busy_poll |-> FALSE]

\* a ring in use: two submissions and two completions queued, files and
\* buffers registered, requests polling and deferred
BusyCtx ==
    [BaseCtx EXCEPT
        !.sq_head = 3, !.sq_tail = 5, !.cached_sq_head = 3,
        !.cq_head = 2, !.cq_tail = 4, !.cached_cq_tail = 4,
        !.file_table_nr = 3, !.file_table = [i \in 0..2 |-> IF i = 1 THEN 0 ELSE 10 + i],
        !.buf_table_nr = 3, !.buf_table = [i \in 0..2 |-> i - 1],
        !.cancel_table = [b \in 0..1 |-> IF b = 0 THEN <<Req(1, 501, 1)>>
                                         ELSE <<Req(2, 502, 2), Req(0, 503, 1)>>],
        !.work_llist = <<Req(1, 601, 1)>>,
        !.fallback_llist = <<Req(2, 602, 2), Req(0, 603, 0)>>,
        !.defer_list = <<Req(0, 604, 2)>>,
        !.nr_req_allocated = 7, !.cancel_seq = 3]

\* ring flags a ring can be set up with: SQE128 and SQE_MIXED exclude each other
SqFlagChoices ==
    {f \in SUBSET {"SQE128", "SQE_MIXED", "NO_SQARRAY"} :
        ~({"SQE128", "SQE_MIXED"} \subseteq f)}

\* the rings of the concurrent specification
SmallRings ==
    { BaseCtx,
      BusyCtx,
      [BusyCtx EXCEPT !.flags = {"SQPOLL", "SQE_MIXED", "NO_SQARRAY"},
                      !.sq_data.thread = 9,
                      !.sq_sqes = SqSqes(4, 0, [k \in 0..3 |->
                                      IF k = 0 THEN IORING_OP_LAST - 1 ELSE 1]),
                      !.cq_overflow_list = <<[user_data |-> 899, res |-> 0, flags |-> 0]>>,
                      !.config_net_rx_busy_poll = TRUE, !.napi_track_mode = 1],
      [BusyCtx EXCEPT !.flags = {"SQPOLL", "CQE32"}, !.rings = TRUE,
                      !.cqes = [s \in 0..7 |-> [user_data |-> 200 + s, res |-> 0,
                                                flags |-> 0]]] }

\* shared SQ head values: small ones, and one just below the wrap
SqHeadChoices == {0, 3, UINT_MAX}

\* ring sizes
SqEntriesChoices == {2, 4}

\* opcodes a user may have written: a 64-byte one, the 128-byte one, and the
\* first value beyond the table
OpChoices == {0, IORING_OP_LAST - 1, IORING_OP_LAST}

\* contents of ctx->sq_array: the identity, a permutation holding the first
\* value beyond the mask, a rotation holding the largest unsigned value
SqArrayChoices(n) ==
    { [i \in 0..(n - 1) |-> i],
      [i \in 0..(n - 1) |-> IF i = 1 THEN n ELSE n - 1 - i],
      [i \in 0..(n - 1) |-> IF i = 0 THEN UINT_MAX ELSE (i + 1) % n] }

\* a ring of the SQ scan: flags f, n entries, the window of w entries at h,
\* sq_array a and entry opcodes ops
SqRing(f, n, h, w, a, ops) ==
    [BaseCtx EXCEPT !.flags = f, !.sq_entries = n,
                    !.sq_head = h, !.sq_tail = U32(h + w),
                    !.cached_sq_head = h,
                    !.sq_array = a,
                    !.sq_sqes = SqSqes(n, IF "SQE128" \in f THEN 1 ELSE 0, ops)]

\* most completion entries of a CQ window drawn by InitCQ
MaxCqes == 3

\* shared CQ head values: small ones, and two just below the wrap
CqHeadChoices == {0, 2, UINT_MAX - 2, UINT_MAX}

\* CQ ring sizes
CqEntriesChoices == {4, 8}

\* the widths in slots of the entries of a window: 1 for a 16-byte entry, 2
\* for a 32-byte one; on a CQE32 ring every entry is a 32-byte one
CqKindChoices(f) ==
    UNION { [1..k -> (IF "CQE32" \in f THEN {2} ELSE {1, 2})] : k \in 0..MaxCqes }

RECURSIVE CqOffset(_, _)
\* the slots taken by the entries before entry k
CqOffset(kinds, k) == IF k <= 1 THEN 0 ELSE CqOffset(kinds, k - 1) + kinds[k - 1]

\* the slots taken by all the entries
CqSlots(kinds) == CqOffset(kinds, Len(kinds) + 1)

\* r->cqes of a ring of n slots holding the entries back to back from head h:
\* a 32-byte entry carries IORING_CQE_F_32 (unless the ring is CQE32) and is
\* followed by the slot of its two extra words
CqCqes(f, n, h, kinds) ==
    [s \in 0..(n - 1) |->
        IF \E k \in 1..Len(kinds) : s = U32(h + CqOffset(kinds, k)) % n
        THEN LET k == CHOOSE j \in 1..Len(kinds) : s = U32(h + CqOffset(kinds, j)) % n
             IN  [user_data |-> 300 + k, res |-> k,
                  flags |-> IF kinds[k] = 2 /\ "CQE32" \notin f THEN 1 ELSE 0]
        ELSE [user_data |-> 0, res |-> 0, flags |-> 0]]

\* a ring of the CQ scan: flags f, n slots, the entries `kinds` from head h
CqRing(f, n, h, kinds) ==
    [BaseCtx EXCEPT !.flags = f, !.cq_entries = n,
                    !.cq_head = h, !.cq_tail = U32(h + CqSlots(kinds)),
                    !.cached_cq_tail = U32(h + CqSlots(kinds)),
                    !.cqes = CqCqes(f, n, h, kinds)]

\* most slots of a registered table drawn by InitTab
MaxSlots == 3

\* a slot of the registered-file table: empty, or a file
FileSlotChoices == {0, 11}

\* a slot of the registered-buffer table: a node without a buffer, empty, or
\* a buffer
BufSlotChoices == {-1, 0, 5}

\* a ring with registered tables ft and bt, SQPOLL set or clear and the
\* SQ-poll thread there (9) or gone (0)
TabRing(sqpoll, thread, ft, bt) ==
    [BaseCtx EXCEPT !.flags = IF sqpoll THEN {"SQPOLL"} ELSE {},
                    !.sq_data.thread = thread,
                    !.file_table_nr = Cardinality(DOMAIN ft), !.file_table = ft,
                    !.buf_table_nr = Cardinality(DOMAIN bt), !.buf_table = bt]

\* contents of a deferred-work list or of the defer list
ReqListChoices ==
    { <<>>, <<Req(1, 601, 1)>>,
      <<Req(2, 602, 2),
        [Req(0, 603, 0) EXCEPT !.flags = 5, !.refs = 2, !.poll_refs = 3,
                               !.cancel_seq = 4, !.cancel_seq_set = 1]>> }

\* contents of the poll hash: nothing, one request whose task has task work
\* queued, requests in both buckets of which one has no task context
PollChoices ==
    { [b \in 0..1 |-> <<>>],
      [b \in 0..1 |-> IF b = 1 THEN <<Req(1, 501, 1)>> ELSE <<>>],
      [b \in 0..1 |-> IF b = 0 THEN <<Req(2, 502, 2), Req(0, 503, 0)>>
                      ELSE <<Req(1, 504, 1)>>] }

\* contents of the overflow list before the call
OverflowChoices == { <<>>, <<[user_data |-> 899, res |-> 0, flags |-> 0]>> }

\* a ring of the dumper: rings mapped or not, and its poll hash and lists
DumpRing(rings, poll, wl, rl, fl, dfl, ovf) ==
    [BaseCtx EXCEPT !.rings = rings, !.sq_tail = 2, !.cq_tail = 1,
                    !.cancel_table = poll,
                    !.work_llist = wl, !.retry_llist = rl, !.fallback_llist = fl,
                    !.defer_list = dfl, !.cq_overflow_list = ovf,
                    !.nr_req_allocated = 7, !.cancel_seq = 3]

-----------------------------------------------------------------------------
(* lib/random32.c: prandom_u32_state and prandom_bytes_state.  A u32 is the *)
(* function of its 32 bits, bit 0 the least significant.                    *)

\* most bytes a call of InitRnd asks for
MaxBytes == 9

\* sizeof(u32)
SizeofU32 == 4

BITS_PER_BYTE == 8

Bits == 0..(SizeofU32 * BITS_PER_BYTE - 1)

\* x << k, x >> k, x ^ y on u32
Shl(x, k) == [i \in Bits |-> IF i >= k THEN x[i - k] ELSE 0]
Shr(x, k) == [i \in Bits |-> IF i + k \in Bits THEN x[i + k] ELSE 0]
Xor(x, y) == [i \in Bits |-> (x[i] + y[i]) % 2]

\* x & c for the masks of lines 55-58, which clear the k low bits:
\* 4294967294 (k = 1), 4294967288 (3), 4294967280 (4), 4294967168 (7)
ClearLow(x, k) == [i \in Bits |-> IF i < k THEN 0 ELSE x[i]]

\* line 54, c given as the number of low bits the mask clears
TAUSWORTHE(s, a, b, c, d) == Xor(Shl(ClearLow(s, c), d), Shr(Xor(Shl(s, a), s), b))

\* lines 52-61: the new state and the value returned
prandom_u32_state(state) ==
    LET s1 == TAUSWORTHE(state.s1, 6, 13, 1, 18)
        s2 == TAUSWORTHE(state.s2, 2, 27, 3, 2)
        s3 == TAUSWORTHE(state.s3, 13, 21, 4, 7)
        s4 == TAUSWORTHE(state.s4, 3, 12, 7, 13)
    IN  [state |-> [s1 |-> s1, s2 |-> s2, s3 |-> s3, s4 |-> s4],
         out   |-> Xor(Xor(s1, s2), Xor(s3, s4))]

\* byte j of a u32, byte 0 the least significant, as a number 0..255
ByteOf(x, j) ==
    LET b(i) == x[BITS_PER_BYTE * j + i]
    IN  b(0) + 2 * b(1) + 4 * b(2) + 8 * b(3) + 16 * b(4) + 32 * b(5)
        + 64 * b(6) + 128 * b(7)

\* the u32 whose bytes are by[1] (least significant) .. by[4]
WordOf(by) ==
    [i \in Bits |-> (by[i \div BITS_PER_BYTE + 1] \div (2 ^ (i % BITS_PER_BYTE))) % 2]

\* put_unaligned(x, (u32 *) ptr): the bytes stored at ptr, ptr + 1, ... in the
\* byte order of the CPU
put_unaligned(x, big_endian) ==
    [j \in 0..(SizeofU32 - 1) |->
        ByteOf(x, IF big_endian THEN SizeofU32 - 1 - j ELSE j)]

\* what a call of prandom_bytes_state leaves alone
FdinfoUnchanged ==
    UNCHANGED <<ctx, uring_lock, completion_lock, waiting, rpc, l, m, acc,
                dpc, dl, klog, opc, sqt, fw, io, clk>>

\* lines 78-82: one turn of the while loop, or its exit
prandom_bytes_state_while ==
    /\ rnd.pc = "while"
    /\ IF rnd.bytes >= SizeofU32
       THEN LET g  == prandom_u32_state(rnd.state)
                by == put_unaligned(g.out, rnd.big_endian)
            IN  rnd' = [rnd EXCEPT
                          !.state = g.state, !.calls = rnd.calls + 1,
                          !.buf = [i \in DOMAIN rnd.buf |->
                                     IF i \in rnd.ptr..(rnd.ptr + SizeofU32 - 1)
                                     THEN by[i - rnd.ptr] ELSE rnd.buf[i]],
                          !.ptr = rnd.ptr + SizeofU32,
                          !.bytes = rnd.bytes - SizeofU32]
       ELSE rnd' = [rnd EXCEPT !.pc = "if"]
    /\ FdinfoUnchanged

\* lines 84-85: the test, and the output the last bytes are taken from
prandom_bytes_state_if ==
    /\ rnd.pc = "if"
    /\ IF rnd.bytes > 0
       THEN LET g == prandom_u32_state(rnd.state)
            IN  rnd' = [rnd EXCEPT !.state = g.state, !.calls = rnd.calls + 1,
                                   !.rem = g.out, !.pc = "do"]
       ELSE rnd' = [rnd EXCEPT !.pc = "done"]
    /\ FdinfoUnchanged

\* lines 86-90 without the shift of line 89
prandom_bytes_state_do_noshift ==
    /\ rnd.pc = "do"
    /\ rnd' = [rnd EXCEPT !.buf[rnd.ptr] = ByteOf(rnd.rem, 0),
                          !.ptr = rnd.ptr + 1,
                          !.bytes = rnd.bytes - 1,
                          !.pc = IF rnd.bytes - 1 > 0 THEN "do" ELSE "done"]
    /\ FdinfoUnchanged

\* lines 86-90: one turn of the do-while loop
prandom_bytes_state_do ==
    /\ rnd.pc = "do"
    /\ rnd' = [rnd EXCEPT !.buf[rnd.ptr] = ByteOf(rnd.rem, 0),
                          !.ptr = rnd.ptr + 1,
                          !.bytes = rnd.bytes - 1,
                          !.rem = Shr(rnd.rem, BITS_PER_BYTE),
                          !.pc = IF rnd.bytes - 1 > 0 THEN "do" ELSE "done"]
    /\ FdinfoUnchanged

prandom_bytes_state ==
    \/ prandom_bytes_state_while
    \/ prandom_bytes_state_if
    \/ prandom_bytes_state_do

\* seeds: four words, each from its four bytes (s1 > 1, s2 > 7, s3 > 15,
\* s4 > 127)
SeedChoices ==
    { [s1 |-> WordOf(<<18, 52, 86, 120>>), s2 |-> WordOf(<<9, 0, 0, 128>>),
       s3 |-> WordOf(<<255, 255, 255, 255>>), s4 |-> WordOf(<<128, 1, 2, 3>>)],
      [s1 |-> WordOf(<<2, 0, 0, 0>>), s2 |-> WordOf(<<8, 0, 0, 0>>),
       s3 |-> WordOf(<<16, 0, 0, 0>>), s4 |-> WordOf(<<128, 0, 0, 0>>)] }

\* a byte of memory no store has reached
Untouched == -1

\* the call prandom_bytes_state(state, buf, n) at its entry; buf is followed
\* by memory that is not part of it
RndCall(state, n, big_endian) ==
    [pc |-> "while", big_endian |-> big_endian, s0 |-> state, state |-> state,
     n |-> n, buf |-> [i \in 0..(MaxBytes + SizeofU32 - 1) |-> Untouched],
     ptr |-> 0, bytes |-> n, rem |-> WordOf(<<0, 0, 0, 0>>), calls |-> 0]

-----------------------------------------------------------------------------
(* drivers/scsi/mpi3mr (carried in clk-hi6250.c): firmware events *)

\* firmware events that can be allocated at a time (the memory kzalloc has)
MaxEvents == 2

\* most events the producers add to the list in one behaviour
MaxAdds == 3

\* the addresses kzalloc hands out; 0 is NULL
Slots == 1..MaxEvents

\* the memory of a slot that was never allocated.  alive: allocated and not
\* freed; ref: the kref; work: the state of fwevt->work; stamp: the order of
\* the event among those added to the list (0: not added); frees: the calls
\* of kfree since the slot was allocated
ZeroEvent ==
    [alive |-> FALSE, ref |-> 0, work |-> "none", discard |-> FALSE,
     pending_at_sml |-> FALSE, stamp |-> 0, frees |-> 0]

\* no call of mpi3mr_cleanup_fwevt_list is under way
ClIdle ==
    [pc |-> "idle", caller |-> "none", fwevt |-> 0, seen |-> 0,
     removed |-> <<>>, added |-> FALSE, stale |-> FALSE]

\* an adapter with or without an event worker thread and no event; the
\* throttle group reduces its queue depth to reduction tenths
FwState(worker_thread, reduction) ==
    [worker_thread |-> worker_thread,
     list |-> <<>>,
     ev |-> [s \in Slots |-> ZeroEvent],
     current_event |-> 0,
     nadd |-> 0,
     tg |-> [fw_qd |-> 16, modified_qd |-> 16, qd_reduction |-> reduction],
     prod |-> [pc |-> "idle", fwevt |-> 0],
     wk |-> [pc |-> "idle", fwevt |-> 0],
     cl |-> ClIdle]

FwIdle == FwState(FALSE, 5)

\* what the firmware event paths leave alone
FwUnchanged ==
    UNCHANGED <<ctx, uring_lock, completion_lock, waiting, rpc, l, m, acc,
                dpc, dl, klog, opc, rnd, sqt, io, clk>>

OnList(f, s) == \E i \in 1..Len(f.list) : f.list[i] = s

\* list_del_init(&fwevt->list)
ListDel(list, s) == SelectSeq(list, LAMBDA x : x # s)

\* lines 724-727
mpi3mr_fwevt_get(f, s) == [f EXCEPT !.ev[s].ref = @ + 1]

\* lines 735-738 and 713-716: the last reference frees the event
mpi3mr_fwevt_put(f, s) ==
    [f EXCEPT !.ev[s].ref = @ - 1,
              !.ev[s].alive = IF f.ev[s].ref = 1 THEN FALSE ELSE @,
              !.ev[s].frees = IF f.ev[s].ref = 1 THEN @ + 1 ELSE @]

\* lines 749-759: zeroed memory with a reference count of one
mpi3mr_alloc_fwevt(f, s) ==
    [f EXCEPT !.ev[s] = [ZeroEvent EXCEPT !.alive = TRUE, !.ref = 1]]

\* lines 770-788: nothing without a worker thread; else the event goes to the
\* tail of the list and its work is queued, one reference each
mpi3mr_fwevt_add_to_list(f, s) ==
    IF ~f.worker_thread THEN f
    ELSE LET g == mpi3mr_fwevt_get(mpi3mr_fwevt_get(f, s), s)
         IN  [g EXCEPT !.list = Append(@, s),
                       !.ev[s].work = "pending",
                       !.ev[s].stamp = f.nadd + 1,
                       !.nadd = @ + 1,
                       !.cl.added = @ \/ f.cl.pc # "idle"]

\* lines 833-848 without the test of line 839
mpi3mr_fwevt_del_from_list_unchecked(f, s) ==
    mpi3mr_fwevt_put([f EXCEPT !.list = ListDel(@, s)], s)

\* lines 833-848: the reference of the list is dropped if the event is on it
mpi3mr_fwevt_del_from_list(f, s) ==
    IF OnList(f, s)
    THEN mpi3mr_fwevt_put([f EXCEPT !.list = ListDel(@, s)], s)
    ELSE f

\* lines 858-878: the first entry of the list, or NULL
mpi3mr_dequeue_fwevt(f) ==
    IF f.list # <<>>
    THEN LET fwevt == Head(f.list)
         IN  [fw |-> mpi3mr_fwevt_put([f EXCEPT !.list = ListDel(@, fwevt)],
                                      fwevt),
              ret |-> fwevt]
    ELSE [fw |-> f, ret |-> 0]

\* lines 886-907, once cancel_work_sync() can return: a work still queued is
\* cancelled and two references are dropped; a work that ran, was cancelled or
\* was never queued leaves the event alone
mpi3mr_cancel_work(f, s) ==
    IF f.ev[s].work = "pending"
    THEN mpi3mr_fwevt_put(
             mpi3mr_fwevt_put([f EXCEPT !.ev[s].work = "cancelled"], s), s)
    ELSE f

\* the slots kzalloc can hand out
FreeSlots(f) == {s \in Slots : ~f.ev[s].alive}

\* lines 801-819: the event of mpi3mr_hdb_trigger_data_event is allocated, or
\* the allocation fails and the function returns
Hdb_Alloc ==
    /\ fw.prod.pc = "idle"
    /\ fw.nadd < MaxAdds
    /\ \/ \E s \in FreeSlots(fw) :
             fw' = [mpi3mr_alloc_fwevt(fw, s) EXCEPT
                       !.prod = [pc |-> "hdb_add", fwevt |-> s]]
       \/ fw' = [fw EXCEPT !.prod = [pc |-> "failed", fwevt |-> 0]]
    /\ FwUnchanged

\* lines 821-822: the event is handed to mpi3mr_fwevt_add_to_list
Hdb_Add ==
    /\ fw.prod.pc = "hdb_add"
    /\ fw' = [mpi3mr_fwevt_add_to_list(fw, fw.prod.fwevt) EXCEPT
                 !.prod = [pc |-> "idle", fwevt |-> 0]]
    /\ FwUnchanged

\* lines 808-811 and 974-977: the warning and the return
Prod_Failed ==
    /\ fw.prod.pc = "failed"
    /\ fw' = [fw EXCEPT !.prod = [pc |-> "idle", fwevt |-> 0]]
    /\ FwUnchanged

mpi3mr_hdb_trigger_data_event == Hdb_Alloc \/ Hdb_Add

\* max_t(u16, a, b)
MaxU16(a, b) == IF a % 65536 > b % 65536 THEN a % 65536 ELSE b % 65536

\* lines 959-985: nothing while a reduction is in force; else the event is
\* allocated and the queue depth of the group reduced
Qd_Alloc ==
    /\ fw.prod.pc = "idle"
    /\ fw.nadd < MaxAdds
    /\ fw.tg.fw_qd = fw.tg.modified_qd
    /\ \/ \E s \in FreeSlots(fw) :
             fw' = [mpi3mr_alloc_fwevt(fw, s) EXCEPT
                       !.prod = [pc |-> "qd_add", fwevt |-> s],
                       !.tg.modified_qd =
                           MaxU16((fw.tg.fw_qd * fw.tg.qd_reduction) \div 10, 8)]
       \/ fw' = [fw EXCEPT !.prod = [pc |-> "failed", fwevt |-> 0]]
    /\ FwUnchanged

\* lines 987-990
Qd_Add ==
    /\ fw.prod.pc = "qd_add"
    /\ fw' = [mpi3mr_fwevt_add_to_list(fw, fw.prod.fwevt) EXCEPT
                 !.prod = [pc |-> "idle", fwevt |-> 0]]
    /\ FwUnchanged

mpi3mr_queue_qd_reduction_event == Qd_Alloc \/ Qd_Add

\* the worker thread is inside a call of mpi3mr_cleanup_fwevt_list it made
WorkerInCleanup == fw.cl.pc # "idle" /\ fw.cl.caller = "worker"

\* the ordered workqueue runs the work queued first
Worker_Start ==
    /\ fw.worker_thread
    /\ fw.wk.pc = "idle"
    /\ \E s \in Slots :
          /\ fw.ev[s].work = "pending"
          /\ \A t \in Slots : fw.ev[t].work = "pending"
                                 => fw.ev[s].stamp <= fw.ev[t].stamp
          /\ fw' = [fw EXCEPT !.ev[s].work = "running",
                              !.wk = [pc |-> "bh", fwevt |-> s]]
    /\ FwUnchanged

\* the work function takes its event off the list and makes it the current
\* event
Worker_Del ==
    /\ fw.wk.pc = "bh"
    /\ fw' = [mpi3mr_fwevt_del_from_list(fw, fw.wk.fwevt) EXCEPT
                 !.current_event = fw.wk.fwevt,
                 !.wk.pc = "process"]
    /\ FwUnchanged

\* lines 1466-1468 and 1520-1522: the event waits in the SCSI mid layer
Worker_SmlEnter ==
    /\ fw.wk.pc = "process"
    /\ ~WorkerInCleanup
    /\ fw.current_event # 0
    /\ fw' = [fw EXCEPT !.ev[fw.current_event].pending_at_sml = TRUE,
                        !.wk.pc = "sml"]
    /\ FwUnchanged

\* lines 1470-1477 and 1527-1533: the mid layer has returned
Worker_SmlLeave ==
    /\ fw.wk.pc = "sml"
    /\ fw' = [fw EXCEPT !.ev[fw.current_event].pending_at_sml = FALSE,
                        !.wk.pc = "process"]
    /\ FwUnchanged

\* the event is processed: the reference of the allocation is dropped and no
\* event is current
Worker_Out ==
    /\ fw.wk.pc = "process"
    /\ ~WorkerInCleanup
    /\ fw' = [mpi3mr_fwevt_put(fw, fw.wk.fwevt) EXCEPT
                 !.current_event = 0,
                 !.wk.pc = "put"]
    /\ FwUnchanged

\* the work function drops the reference of the work and returns
Worker_Put ==
    /\ fw.wk.pc = "put"
    /\ fw' = [mpi3mr_fwevt_put([fw EXCEPT !.ev[fw.wk.fwevt].work = "done"],
                               fw.wk.fwevt) EXCEPT
                 !.wk = [pc |-> "idle", fwevt |-> 0]]
    /\ FwUnchanged

mpi3mr_fwevt_worker ==
    \/ Worker_Start \/ Worker_Del \/ Worker_SmlEnter \/ Worker_SmlLeave
    \/ Worker_Out \/ Worker_Put

\* current_work() == &fwevt->work for the caller of the cleanup
OwnWork(f, s) == f.cl.caller = "worker" /\ f.wk.fwevt = s

\* the pointer the cleanup holds is to memory that was freed since
StalePointer(f) ==
    ~f.ev[f.cl.fwevt].alive \/ f.ev[f.cl.fwevt].stamp # f.cl.seen

\* lines 918-924: a reset path, or the worker while it processes an event,
\* calls the cleanup
Cleanup_Call(caller) ==
    /\ fw.cl.pc = "idle"
    /\ caller = "worker" => fw.wk.pc = "process"
    /\ fw' = [fw EXCEPT !.cl =
                 [ClIdle EXCEPT
                    !.caller = caller,
                    !.pc = IF (fw.list = <<>> /\ fw.current_event = 0)
                              \/ ~fw.worker_thread
                           THEN "done" ELSE "loop"]]
    /\ FwUnchanged

\* line 926: one call of mpi3mr_dequeue_fwevt
Cleanup_Dequeue ==
    /\ fw.cl.pc = "loop"
    /\ LET d == mpi3mr_dequeue_fwevt(fw)
       IN  IF d.ret = 0
           THEN fw' = [fw EXCEPT !.cl.pc = "current", !.cl.fwevt = 0]
           ELSE fw' = [d.fw EXCEPT
                          !.cl.pc = "cancel",
                          !.cl.fwevt = d.ret,
                          !.cl.seen = fw.ev[d.ret].stamp,
                          !.cl.removed = Append(@, fw.ev[d.ret].stamp)]
    /\ FwUnchanged

\* line 927: cancel_work_sync() waits for a running work; a caller that waits
\* for the work it is running itself never returns
Cleanup_Cancel ==
    /\ fw.cl.pc = "cancel"
    /\ IF fw.ev[fw.cl.fwevt].work = "running"
       THEN /\ OwnWork(fw, fw.cl.fwevt)
            /\ fw' = [fw EXCEPT !.cl.pc = "deadlock"]
       ELSE fw' = [mpi3mr_cancel_work(fw, fw.cl.fwevt) EXCEPT
                      !.cl.pc = "loop",
                      !.cl.stale = @ \/ StalePointer(fw)]
    /\ FwUnchanged

\* lines 929-945 without the test of line 939
Cleanup_Current_always_cancel ==
    /\ fw.cl.pc = "current"
    /\ LET cur == fw.current_event
       IN  IF cur = 0
           THEN fw' = [fw EXCEPT !.cl.pc = "done"]
           ELSE fw' = [fw EXCEPT !.cl.pc = "cancel_cur",
                                 !.cl.fwevt = cur,
                                 !.cl.seen = fw.ev[cur].stamp]
    /\ FwUnchanged

\* lines 929-945: the current event is only marked for discard when its work
\* is the caller's own or it waits in the SCSI mid layer
Cleanup_Current ==
    /\ fw.cl.pc = "current"
    /\ LET cur == fw.current_event
       IN  IF cur = 0
           THEN fw' = [fw EXCEPT !.cl.pc = "done"]
           ELSE IF OwnWork(fw, cur) \/ fw.ev[cur].pending_at_sml
           THEN fw' = [fw EXCEPT !.ev[cur].discard = TRUE, !.cl.pc = "done"]
           ELSE fw' = [fw EXCEPT !.cl.pc = "cancel_cur",
                                 !.cl.fwevt = cur,
                                 !.cl.seen = fw.ev[cur].stamp]
    /\ FwUnchanged

\* line 944: mpi3mr_cancel_work for the current event
Cleanup_CancelCurrent ==
    /\ fw.cl.pc = "cancel_cur"
    /\ IF fw.ev[fw.cl.fwevt].work = "running"
       THEN /\ OwnWork(fw, fw.cl.fwevt)
            /\ fw' = [fw EXCEPT !.cl.pc = "deadlock"]
       ELSE fw' = [mpi3mr_cancel_work(fw, fw.cl.fwevt) EXCEPT
                      !.cl.pc = "done",
                      !.cl.stale = @ \/ StalePointer(fw)]
    /\ FwUnchanged

\* mpi3mr_cleanup_fwevt_list has returned
Cleanup_Return ==
    /\ fw.cl.pc = "done"
    /\ fw' = [fw EXCEPT !.cl = ClIdle]
    /\ FwUnchanged

mpi3mr_cleanup_fwevt_list ==
    \/ \E caller \in {"reset", "worker"} : Cleanup_Call(caller)
    \/ Cleanup_Dequeue \/ Cleanup_Cancel \/ Cleanup_Current
    \/ Cleanup_CancelCurrent \/ Cleanup_Return

FwEvents ==
    \/ mpi3mr_hdb_trigger_data_event
    \/ mpi3mr_queue_qd_reduction_event
    \/ Prod_Failed
    \/ mpi3mr_fwevt_worker
    \/ mpi3mr_cleanup_fwevt_list

-----------------------------------------------------------------------------
(* drivers/scsi/mpi3mr (carried in clk-hi6250.c): SCSI commands and host tags *)

\* hardware queues of the SCSI host's tag set
NumHwq == 2

\* tags of one hardware queue
MaxTags == 2

\* bits of mrioc->chain_bitmap
MaxChain == 2

\* most requests the block layer has started at a time
MaxInflight == 2

\* width of the tag part of a unique tag
BLK_MQ_UNIQUE_TAG_BITS == 16

MPI3MR_HOSTTAG_INVALID == 65535

\* the host byte a flushed command is returned with
DID_RESET == 8

U16Max == 2 ^ BLK_MQ_UNIQUE_TAG_BITS - 1

\* a SCSI command is the request of one tag of one hardware queue
Cmds == (0..(NumHwq - 1)) \X (0..(MaxTags - 1))

\* NULL
NoCmd == <<-1, -1>>

\* struct scmd_priv of a request that was never issued
ZeroPriv ==
    [host_tag |-> 0, scmd |-> NoCmd, in_lld_scope |-> 0, req_q_idx |-> 0,
     meta_chain_idx |-> 0, chain_idx |-> 0, meta_sg_valid |-> 0]

\* a request of the tag set: started is blk_mq_request_started(), done counts
\* the calls of scsi_done() since the request was started
ZeroRq == [started |-> FALSE, priv |-> ZeroPriv, result |-> 0, done |-> 0]

\* the adapter with r reply queues and h host I/Os, nothing issued
IoState(r, h) ==
    [num_op_reply_q |-> r, max_host_ios |-> h,
     rq |-> [c \in Cmds |-> ZeroRq],
     chain_bitmap |-> {},
     flush_io_count |-> 0,
     fl |-> [pc |-> "idle", scope0 |-> {},
             before |-> [c \in Cmds |-> ZeroRq]]]

IoIdle == IoState(1, 1)

\* what the SCSI command paths leave alone
IoUnchanged ==
    UNCHANGED <<ctx, uring_lock, completion_lock, waiting, rpc, l, m, acc,
                dpc, dl, klog, opc, rnd, sqt, fw, clk>>

\* blk_mq_unique_tag(): the hardware queue above the tag, as the two 16-bit
\* halves of the u32
blk_mq_unique_tag(c) == [hi |-> c[1], lo |-> c[2]]

\* bitwise or of two w-bit numbers
RECURSIVE BitOr(_, _, _)
BitOr(a, b, w) ==
    IF w = 0 \/ (a = 0 /\ b = 0) THEN 0
    ELSE (IF a % 2 = 1 \/ b % 2 = 1 THEN 1 ELSE 0)
         + 2 * BitOr(a \div 2, b \div 2, w - 1)

\* scsi_host_find_tag(): the started request of that hardware queue and tag
scsi_host_find_tag(s, unique_tag) ==
    LET hwq == unique_tag.hi
        tag == unique_tag.lo
    IN  IF unique_tag.hi = U16Max /\ unique_tag.lo = U16Max THEN NoCmd
        ELSE IF hwq < NumHwq /\ tag < MaxTags /\ s.rq[<<hwq, tag>>].started
             THEN <<hwq, tag>>
             ELSE NoCmd

\* lines 607-634 with line 626 storing the block tag itself
mpi3mr_host_tag_for_scmd_no_increment(s, scmd) ==
    LET unique_tag == blk_mq_unique_tag(scmd)
        hw_queue   == unique_tag.hi
        host_tag   == unique_tag.lo
    IN  IF hw_queue >= s.num_op_reply_q
        THEN [io |-> s, ret |-> MPI3MR_HOSTTAG_INVALID]
        ELSE IF host_tag >= s.max_host_ios
        THEN [io |-> s, ret |-> MPI3MR_HOSTTAG_INVALID]
        ELSE [io |-> [s EXCEPT !.rq[scmd].priv =
                        [host_tag |-> host_tag, scmd |-> scmd,
                         in_lld_scope |-> 1, req_q_idx |-> hw_queue,
                         meta_chain_idx |-> -1, chain_idx |-> -1,
                         meta_sg_valid |-> 0]],
              ret |-> host_tag]

\* lines 607-634: the host tag of a command, block tag + 1, or the invalid tag
mpi3mr_host_tag_for_scmd(s, scmd) ==
    LET unique_tag == blk_mq_unique_tag(scmd)
        hw_queue   == unique_tag.hi
        host_tag   == unique_tag.lo
    IN  IF hw_queue >= s.num_op_reply_q
        THEN [io |-> s, ret |-> MPI3MR_HOSTTAG_INVALID]
        ELSE IF host_tag >= s.max_host_ios
        THEN [io |-> s, ret |-> MPI3MR_HOSTTAG_INVALID]
        ELSE [io |-> [s EXCEPT !.rq[scmd].priv =
                        [host_tag |-> (host_tag + 1) % (U16Max + 1),
                         scmd |-> scmd,
                         in_lld_scope |-> 1, req_q_idx |-> hw_queue,
                         meta_chain_idx |-> -1, chain_idx |-> -1,
                         meta_sg_valid |-> 0]],
              ret |-> (host_tag + 1) % (U16Max + 1)]

\* lines 647-667: the command of a host tag and queue, or NULL
mpi3mr_scmd_from_host_tag(s, host_tag, qidx) ==
    LET minus1     == IF host_tag = 0 THEN [hi |-> U16Max, lo |-> U16Max]
                      ELSE [hi |-> 0, lo |-> host_tag - 1]
        unique_tag == [hi |-> BitOr(minus1.hi, qidx, BLK_MQ_UNIQUE_TAG_BITS),
                       lo |-> minus1.lo]
        scmd       == scsi_host_find_tag(s, unique_tag)
    IN  IF host_tag > s.max_host_ios THEN NoCmd
        ELSE IF scmd # NoCmd /\ s.rq[scmd].priv.in_lld_scope = 0 THEN NoCmd
        ELSE scmd

\* lines 679-701 without the release of the meta chain frame
mpi3mr_clear_scmd_priv_keep_meta(s, scmd) ==
    LET priv == s.rq[scmd].priv
    IN  IF priv.in_lld_scope = 0 THEN s
        ELSE [s EXCEPT
                !.rq[scmd].priv =
                    [host_tag |-> MPI3MR_HOSTTAG_INVALID, req_q_idx |-> U16Max,
                     scmd |-> NoCmd, in_lld_scope |-> 0, meta_sg_valid |-> 0,
                     chain_idx |-> -1,
                     meta_chain_idx |-> priv.meta_chain_idx],
                !.chain_bitmap = @ \ {priv.chain_idx}]

\* lines 679-701: the command leaves driver scope and gives back its chain
\* frames
mpi3mr_clear_scmd_priv(s, scmd) ==
    LET priv == s.rq[scmd].priv
    IN  IF priv.in_lld_scope = 0 THEN s
        ELSE [s EXCEPT
                !.rq[scmd].priv =
                    [host_tag |-> MPI3MR_HOSTTAG_INVALID, req_q_idx |-> U16Max,
                     scmd |-> NoCmd, in_lld_scope |-> 0, meta_sg_valid |-> 0,
                     chain_idx |-> -1, meta_chain_idx |-> -1],
                !.chain_bitmap =
                    (@ \ (IF priv.chain_idx >= 0 THEN {priv.chain_idx} ELSE {}))
                       \ (IF priv.meta_chain_idx >= 0
                          THEN {priv.meta_chain_idx} ELSE {})]

\* the block layer starts the request of a free tag; the SCSI mid layer
\* prepares the command with its private data zeroed
Io_Start(c) ==
    /\ io.fl.pc = "idle"
    /\ ~io.rq[c].started
    /\ Cardinality({d \in Cmds : io.rq[d].started}) < MaxInflight
    /\ io' = [io EXCEPT !.rq[c] = [ZeroRq EXCEPT !.started = TRUE]]
    /\ IoUnchanged

\* the queuecommand path asks for the host tag of a started command
Io_Qcmd(c) ==
    /\ io.fl.pc = "idle"
    /\ io.rq[c].started /\ io.rq[c].done = 0
    /\ io.rq[c].priv.in_lld_scope = 0
    /\ io' = mpi3mr_host_tag_for_scmd(io, c).io
    /\ IoUnchanged

\* the command takes the first free chain frame, for its data or for its
\* metadata
Io_GetChain(c, bit, meta) ==
    /\ io.fl.pc = "idle"
    /\ io.rq[c].priv.in_lld_scope = 1
    /\ bit \notin io.chain_bitmap
    /\ \A b \in 0..(bit - 1) : b \in io.chain_bitmap
    /\ IF meta THEN io.rq[c].priv.meta_chain_idx < 0
               ELSE io.rq[c].priv.chain_idx < 0
    /\ io' = [io EXCEPT !.chain_bitmap = @ \cup {bit},
                        !.rq[c].priv.chain_idx = IF meta THEN @ ELSE bit,
                        !.rq[c].priv.meta_chain_idx = IF meta THEN bit ELSE @,
                        !.rq[c].priv.meta_sg_valid = IF meta THEN 1 ELSE @]
    /\ IoUnchanged

\* a reply of the controller names a host tag and a queue: the command is
\* looked up, leaves driver scope and is completed (a reply that finds no
\* command changes nothing)
Io_Reply(host_tag, qidx) ==
    /\ io.fl.pc = "idle"
    /\ LET scmd == mpi3mr_scmd_from_host_tag(io, host_tag, qidx)
       IN  /\ scmd # NoCmd
           /\ io' = [mpi3mr_clear_scmd_priv(io, scmd) EXCEPT
                        !.rq[scmd].done = @ + 1]
    /\ IoUnchanged

\* the block layer ends a completed request: its tag is free again (nothing
\* reads the private data of a request that is not started)
Io_End(c) ==
    /\ io.fl.pc = "idle"
    /\ io.rq[c].started /\ io.rq[c].done > 0
    /\ io' = [io EXCEPT !.rq[c] = ZeroRq]
    /\ IoUnchanged

\* the started requests in the order blk_mq_tagset_busy_iter() visits them
RECURSIVE BusyRequests(_, _, _)
BusyRequests(s, hwq, tag) ==
    IF hwq >= NumHwq THEN <<>>
    ELSE IF tag >= MaxTags THEN BusyRequests(s, hwq + 1, 0)
    ELSE (IF s.rq[<<hwq, tag>>].started THEN << <<hwq, tag>> >> ELSE <<>>)
         \o BusyRequests(s, hwq, tag + 1)

InScope(s) == {c \in Cmds : s.rq[c].priv.in_lld_scope = 1}

\* lines 1061-1085: one started request of the iteration; a command in driver
\* scope leaves it and is completed with DID_RESET
mpi3mr_flush_scmd(s, scmd) ==
    IF s.rq[scmd].priv.in_lld_scope = 0 THEN s
    ELSE [mpi3mr_clear_scmd_priv(s, scmd) EXCEPT
             !.rq[scmd].result = DID_RESET * (2 ^ 16),
             !.rq[scmd].done = @ + 1,
             !.flush_io_count = @ + 1]

\* blk_mq_tagset_busy_iter(): the callback runs for each started request in
\* turn
RECURSIVE blk_mq_tagset_busy_iter(_, _)
blk_mq_tagset_busy_iter(s, todo) ==
    IF todo = <<>> THEN s
    ELSE blk_mq_tagset_busy_iter(mpi3mr_flush_scmd(s, Head(todo)), Tail(todo))

\* lines 1161-1171: the counter is reset, every started request is visited and
\* the count is logged; fl keeps what the call found
mpi3mr_flush_host_io ==
    /\ io.fl.pc = "idle"
    /\ io' = [blk_mq_tagset_busy_iter([io EXCEPT !.flush_io_count = 0],
                                      BusyRequests(io, 0, 0))
                 EXCEPT !.fl = [pc |-> "done", scope0 |-> InScope(io),
                                before |-> io.rq]]
    /\ IoUnchanged

\* mpi3mr_flush_host_io has returned; nothing reads flush_io_count before
\* line 1165 of the next call resets it, so it is kept as 0 between calls
Flush_Return ==
    /\ io.fl.pc = "done"
    /\ io' = [io EXCEPT !.fl = IoIdle.fl, !.flush_io_count = 0]
    /\ IoUnchanged

ScsiIo ==
    \/ \E c \in Cmds : Io_Start(c)
    \/ \E c \in Cmds : Io_Qcmd(c)
    \/ \E c \in Cmds, bit \in 0..(MaxChain - 1), meta \in BOOLEAN :
          Io_GetChain(c, bit, meta)
    \/ \E host_tag \in (0..(MaxTags + 1)) \cup {MPI3MR_HOSTTAG_INVALID},
          qidx \in 0..(NumHwq - 1) : Io_Reply(host_tag, qidx)
    \/ \E c \in Cmds : Io_End(c)
    \/ mpi3mr_flush_host_io
    \/ Flush_Return

-----------------------------------------------------------------------------
(* drivers/clk/hisilicon/clk-hi6250-stub.c: the stub clocks *)

\* the frequency tables of lines 101-130, in MHz (the source writes them in
\* mHz, numbers wider than the integers of the model)
hi6250_stub_clk_freqs_cluster0 == <<480, 807, 1306, 1709>>
hi6250_stub_clk_freqs_cluster1 == <<1402, 1805, 2016, 2112, 2362>>
hi6250_stub_clk_freqs_ddr == <<120, 240, 360, 533, 800, 933>>
hi6250_stub_clk_freqs_gpu == <<120, 240, 360, 480, 680, 800, 900>>

\* lines 132-137: the table of stub clocks, indexed from 0; the id of a clock
\* is its place in the table
hi6250_stub_clks ==
    [i \in 0..3 |->
        CASE i = 0 -> [id |-> 0, freqs |-> hi6250_stub_clk_freqs_cluster0,
                       cmd |-> 66314, name |-> "cpu-cluster.0"]
          [] i = 1 -> [id |-> 1, freqs |-> hi6250_stub_clk_freqs_cluster1,
                       cmd |-> 131850, name |-> "cpu-cluster.1"]
          [] i = 2 -> [id |-> 2, freqs |-> hi6250_stub_clk_freqs_ddr,
                       cmd |-> 262921, name |-> "clk_ddrc"]
          [] i = 3 -> [id |-> 3, freqs |-> hi6250_stub_clk_freqs_gpu,
                       cmd |-> 197386, name |-> "clk_g3d"]]

\* the number of stub clocks: the four initialisers of lines 133-136
HI6250_CLK_STUB_NUM == 4

\* largest clock index a consumer asks for
MaxClkIdx == 9

\* values readl(freq_reg) returns: every value of one 4-bit field, the other
\* fields zero, and two words with every field set
RegChoices ==
    {n * (16 ^ k) : n \in 0..15, k \in 0..3} \cup {4369, 65535}

\* rates a consumer asks hi6250_stub_clk_set_rate for, in Hz
RateChoices == {480000000, 1306000000}

\* what a read past the end of a frequency table can return
OobChoices == {0, 1}

\* the last call into the driver: its operation, its arguments and what it
\* returned or stored; id is the clock of the call and rate its stub_clk->rate
ClkIdle ==
    [op |-> "none", idx |-> 0, hw |-> [err |-> "none", idx |-> -1],
     id |-> 0, reg |-> 0,
     freq_id |-> 0, oob |-> FALSE,
     rate |-> 0, msg |-> <<0, 0>>]

\* what a call into the stub clock driver leaves alone
ClkUnchanged ==
    UNCHANGED <<ctx, uring_lock, completion_lock, waiting, rpc, l, m, acc,
                dpc, dl, klog, opc, rnd, sqt, fw, io>>

\* line 145 with > in place of >=
hi6250_stub_clk_hw_get_off_by_one(idx) ==
    /\ clk' = [ClkIdle EXCEPT !.op = "hw_get", !.idx = idx,
                              !.hw = IF idx > HI6250_CLK_STUB_NUM
                                     THEN [err |-> "EINVAL", idx |-> -1]
                                     ELSE [err |-> "none", idx |-> idx]]
    /\ ClkUnchanged

\* lines 139-151: the clock of index clkspec->args[0], or ERR_PTR(-EINVAL)
hi6250_stub_clk_hw_get(idx) ==
    /\ clk' = [ClkIdle EXCEPT !.op = "hw_get", !.idx = idx,
                              !.hw = IF idx >= HI6250_CLK_STUB_NUM
                                     THEN [err |-> "EINVAL", idx |-> -1]
                                     ELSE [err |-> "none", idx |-> idx]]
    /\ ClkUnchanged

\* line 61: (readl(freq_reg) >> (stub_clk->id * 4)) & 0xf
FreqId(reg, id) == (reg \div (2 ^ (id * 4))) % 16

\* lines 55-65: the rate is the entry freq_id of the clock's table; an entry
\* past the end of the table is whatever memory follows it
hi6250_stub_clk_recalc_rate(i, reg) ==
    LET stub_clk == hi6250_stub_clks[i]
        freq_id  == FreqId(reg, stub_clk.id)
    IN  /\ \E r \in IF freq_id < Len(stub_clk.freqs)
                    THEN {stub_clk.freqs[freq_id + 1]} ELSE OobChoices :
              clk' = [ClkIdle EXCEPT !.op = "recalc_rate", !.id = i, !.reg = reg,
                                 !.freq_id = freq_id,
                                 !.oob = freq_id >= Len(stub_clk.freqs),
                                 !.rate = r]
        /\ ClkUnchanged

\* lines 74-92: the mailbox message and the cached rate
hi6250_stub_clk_set_rate(i, rate) ==
    /\ clk' = [ClkIdle EXCEPT !.op = "set_rate", !.id = i,
                          !.msg = <<hi6250_stub_clks[i].cmd, rate \div 1000000>>,
                          !.rate = rate]
    /\ ClkUnchanged

StubClk ==
    \/ \E idx \in 0..MaxClkIdx : hi6250_stub_clk_hw_get(idx)
    \/ \E i \in 0..3, reg \in RegChoices : hi6250_stub_clk_recalc_rate(i, reg)
    \/ \E i \in 0..3, rate \in RateChoices : hi6250_stub_clk_set_rate(i, rate)

-----------------------------------------------------------------------------
(* Specifications *)

InitLocals ==
    [sq_head |-> 0, sq_tail |-> 0, cq_head |-> 0, cq_tail |-> 0,
     sq_entries |-> 0, i |-> 0, brk |-> FALSE,
     sq_pid |-> -1, sq_cpu |-> -1, sq_total_time |-> 0, sq_work_time |-> 0,
     rcu |-> 0, tsk |-> 0, tsk_refs |-> 0, uaf |-> FALSE, ocqe |-> 0]

\* the task_struct of the SQ-poll thread `thread`: a running thread has one
\* user of its task_struct, itself; no thread (0) stands for a thread that
\* has exited and whose task_struct is freed
SqTask(thread) ==
    IF thread # 0
    THEN [usage |-> 1, exited |-> FALSE, released |-> FALSE, freed |-> FALSE]
    ELSE [usage |-> 0, exited |-> TRUE, released |-> TRUE, freed |-> TRUE]

\* no call of prandom_bytes_state is under way
RndIdle == [pc |-> "idle"]

InitThreads ==
    /\ uring_lock = NoOwner
    /\ completion_lock = NoOwner
    /\ waiting = [t \in Threads |-> "none"]
    /\ rpc = "call"
    /\ l = InitLocals
    /\ m = <<>>
    /\ acc = {}
    /\ dpc = "idle"
    /\ dl = [held |-> FALSE, count |-> 0]
    /\ klog = <<>>
    /\ opc = "idle"
    /\ rnd = RndIdle
    /\ sqt = SqTask(ctx.sq_data.thread)
    /\ fw = FwIdle
    /\ io = IoIdle
    /\ clk = ClkIdle

\* the reporter, a caller of the dumper and the completion side, interleaved
Init == ctx \in SmallRings /\ InitThreads

Next == Reporter \/ Dumper \/ Completer

Spec == Init /\ [][Next]_vars

\* one reporter call on a ring nobody else touches
InitSQ ==
    /\ \/ ctx \in SmallRings
       \/ \E f \in SqFlagChoices, n \in SqEntriesChoices :
          \E h \in SqHeadChoices, w \in 0..MaxWindow :
          \E a \in (IF "NO_SQARRAY" \in f THEN {<<>>} ELSE SqArrayChoices(n)) :
          \E ops \in [0..(n - 1) -> OpChoices] :
             ctx = SqRing(f, n, h, w, a, ops)
    /\ InitThreads

NextSQ == Reporter

SpecSQ == InitSQ /\ [][NextSQ]_vars

\* one reporter call on a ring nobody else touches, over the CQ windows
InitCQ ==
    /\ \/ ctx \in SmallRings
       \/ \E f \in {{}, {"CQE32"}}, n \in CqEntriesChoices, h \in CqHeadChoices :
          \E kinds \in CqKindChoices(f) :
             /\ CqSlots(kinds) <= n
             /\ ctx = CqRing(f, n, h, kinds)
    /\ InitThreads

NextCQ == Reporter

SpecCQ == InitCQ /\ [][NextCQ]_vars

\* values of the shared CQ tail that need not lie a window ahead of the head
CqTailChoices == {1, 3, UINT_MAX - 1, UINT_MAX}

\* a CQ ring of four slots whose head, tail and IORING_CQE_F_32 flags are
\* whatever memory holds: flag[s] = 1 marks slot s as a 32-byte entry
WildCqRing(f, h, t, flag) ==
    [BaseCtx EXCEPT !.flags = f, !.cq_head = h, !.cq_tail = t,
                    !.cached_cq_tail = t,
                    !.cqes = [s \in 0..3 |-> [user_data |-> 300 + s, res |-> s,
                                              flags |-> flag[s]]]]

\* one reporter call, over every head, tail and pattern of 32-byte entries
InitCQWild ==
    /\ \/ ctx \in SmallRings
       \/ \E f \in {{}, {"CQE32"}}, h \in CqHeadChoices, t \in CqTailChoices :
          \E flag \in (IF f = {} THEN [0..3 -> {0, 1}] ELSE {[s \in 0..3 |-> 0]}) :
             ctx = WildCqRing(f, h, t, flag)
    /\ InitThreads

\* the calling thread keeps running until the call returns
SpecCQWild == InitCQWild /\ [][NextCQ]_vars /\ WF_vars(NextCQ)

\* one reporter call on a ring nobody else touches, over the registered
\* tables and the states of the SQ-poll thread
InitTab ==
    /\ \/ ctx \in SmallRings
       \/ \E sqpoll \in BOOLEAN, thread \in {0, 9} :
          \E kf \in 0..MaxSlots, kb \in 0..MaxSlots :
          \E ft \in [0..(kf - 1) -> FileSlotChoices] :
          \E bt \in [0..(kb - 1) -> BufSlotChoices] :
             ctx = TabRing(sqpoll, thread, ft, bt)
    /\ InitThreads

NextTab == Reporter

SpecTab == InitTab /\ [][NextTab]_vars

\* the reporter on a ring whose SQ-poll thread may exit at any moment
InitPoll ==
    /\ \E sqpoll \in BOOLEAN, thread \in {0, 9} :
       \E kf \in 0..1, kb \in 0..1 :
       \E ft \in [0..(kf - 1) -> FileSlotChoices] :
       \E bt \in [0..(kb - 1) -> BufSlotChoices] :
          ctx = TabRing(sqpoll, thread, ft, bt)
    /\ InitThreads

NextPoll == Reporter \/ SqThread

SpecPoll == InitPoll /\ [][NextPoll]_vars

\* the reporter and a caller of the dumper on rings whose poll hash holds
\* what PollChoices lists
InitBoth ==
    /\ \/ ctx \in SmallRings
       \/ \E poll \in PollChoices : ctx = [BusyCtx EXCEPT !.cancel_table = poll]
    /\ InitThreads

NextBoth == Reporter \/ Dumper

SpecBoth == InitBoth /\ [][NextBoth]_vars

\* a caller of the dumper and the completion side, over the rings of the dumper
InitDump ==
    /\ \E rings \in BOOLEAN, poll \in PollChoices, ovf \in OverflowChoices :
       \E wl \in ReqListChoices, rl \in ReqListChoices :
       \E fl \in ReqListChoices, dfl \in ReqListChoices :
          ctx = DumpRing(rings, poll, wl, rl, fl, dfl, ovf)
    /\ InitThreads

NextDump == Dumper \/ Completer

SpecDump == InitDump /\ [][NextDump]_vars

\* one call of prandom_bytes_state; io_uring is idle
InitRnd ==
    /\ ctx = BaseCtx
    /\ uring_lock = NoOwner /\ completion_lock = NoOwner
    /\ waiting = [t \in Threads |-> "none"]
    /\ rpc = "call" /\ l = InitLocals /\ m = <<>> /\ acc = {}
    /\ dpc = "idle" /\ dl = [held |-> FALSE, count |-> 0] /\ klog = <<>>
    /\ opc = "idle"
    /\ sqt = SqTask(ctx.sq_data.thread)
    /\ fw = FwIdle /\ io = IoIdle /\ clk = ClkIdle
    /\ \E state \in SeedChoices, n \in 0..MaxBytes, big_endian \in BOOLEAN :
          rnd = RndCall(state, n, big_endian)

NextRnd == prandom_bytes_state

\* the calling thread keeps running until the call returns
SpecRnd == InitRnd /\ [][NextRnd]_vars /\ WF_vars(NextRnd)


\* io_uring with no thread running and no lock held
InitIoUringIdle ==
    /\ uring_lock = NoOwner /\ completion_lock = NoOwner
    /\ waiting = [t \in Threads |-> "none"]
    /\ rpc = "call" /\ l = InitLocals /\ m = <<>> /\ acc = {}
    /\ dpc = "idle" /\ dl = [held |-> FALSE, count |-> 0] /\ klog = <<>>
    /\ opc = "idle"
    /\ sqt = SqTask(ctx.sq_data.thread)

\* producers, the worker and the cleanup of firmware events, interleaved;
\* io_uring and the other drivers are idle
InitFw ==
    /\ ctx = BaseCtx
    /\ InitIoUringIdle
    /\ rnd = RndIdle
    /\ io = IoIdle /\ clk = ClkIdle
    /\ \E worker_thread \in BOOLEAN, reduction \in {5, 10} :
          fw = FwState(worker_thread, reduction)

NextFw == FwEvents

SpecFw == InitFw /\ [][NextFw]_vars

\* SCSI commands are issued, tagged, completed and flushed, on an adapter
\* that serves every hardware queue and tag of the host or all but the last
\* of each; io_uring and the other drivers are idle
InitIo ==
    /\ ctx = BaseCtx
    /\ InitIoUringIdle
    /\ rnd = RndIdle
    /\ fw = FwIdle /\ clk = ClkIdle
    /\ \E less \in {0, 1} : io = IoState(NumHwq - less, MaxTags - less)

NextIo == ScsiIo

SpecIo == InitIo /\ [][NextIo]_vars

\* calls into the stub clock driver; io_uring and the other drivers are idle
InitClk ==
    /\ ctx = BaseCtx
    /\ InitIoUringIdle
    /\ rnd = RndIdle
    /\ fw = FwIdle /\ io = IoIdle
    /\ clk = ClkIdle

NextClk == StubClk

SpecClk == InitClk /\ [][NextClk]_vars


-----------------------------------------------------------------------------
(* Properties: helpers *)

\* the SQ entry lines of a report, diagnostics included
IsSqLine(x) == x[1] \in {"sqe", "invalid_sqe", "corrupted_sqe"}
SqLines(out) == SelectSeq(out, IsSqLine)

\* the reporter has printed its header and left the SQ loop
SqScanOver == m # <<>> /\ rpc \notin {"call", "cursors", "sq_loop"}

\* the thread is inside io_uring_dump_reqs, past its assertion, or back in
\* the caller that has not yet unlocked
InDumper == dpc \in {"d_poll", "d_llists", "d_ovf_lock", "d_ovf_count",
                     "d_ovf_print", "d_return"}

-----------------------------------------------------------------------------
(* C1..C4: locking *)

\* C1: a reporter call made while another thread holds uring_lock returns at
\* once: nothing is written to the seq_file, no lock is taken, no cursor and
\* no array of the ring is read.
C1_TrylockFailureIsEmpty ==
    [][(rpc = "call" /\ rpc' # "call" /\ uring_lock # NoOwner)
         => (/\ rpc' = "done"
             /\ m' = <<>> /\ acc' = {} /\ l' = InitLocals
             /\ UNCHANGED <<uring_lock, completion_lock, ctx>>)]_vars

C1_Witness == rpc = "done" /\ m = <<>> /\ uring_lock = DMP

\* C2 as stated: the reporter never waits for a lock another thread holds.
C2_NeverWaits == waiting[REP] = "none"

\* C2 amended: the reporter never waits for uring_lock; the one lock it waits
\* for is completion_lock, at the spin_lock of the overflow section, and it
\* holds uring_lock while it waits there.
C2_WaitsOnlyForCompletionLock ==
    /\ waiting[REP] \in {"none", "completion_lock"}
    /\ waiting[REP] = "completion_lock" =>
          (rpc = "ovf_lock" /\ uring_lock = REP /\ completion_lock # REP)

C2_Witness ==
    waiting[REP] = "completion_lock" /\ completion_lock = CQT /\ rpc = "ovf_lock"

\* C3: no step of the reporter thread or of the dumper thread changes the
\* ring: cursors, arrays, tables, hash chains and lists stay as they were;
\* the reporter advances only its private cq_head and sq_head.
C3_ReadOnly ==
    [][(rpc' # rpc \/ dpc' # dpc \/ l' # l \/ dl' # dl \/ m' # m \/ klog' # klog
        \/ waiting'[REP] # waiting[REP] \/ waiting'[DMP] # waiting[DMP])
         => ctx' = ctx]_vars

C3_Witness ==
    /\ rpc = "done" /\ l.cq_head # ctx.cq_head /\ l.sq_head # ctx.sq_head
    /\ dpc = "done" /\ dl.held /\ klog # <<>>

\* C4: the dumper called by a thread that does not hold uring_lock fails its
\* assertion with nothing logged; called with the lock held it leaves the
\* lock with its caller on every step up to and including its return.
C4_DumperLockPrecondition ==
    /\ [](dpc = "assert_failed" => klog = <<>> /\ ~dl.held)
    /\ [](InDumper => uring_lock = DMP /\ dl.held)
    /\ [][(dpc = "idle" /\ dpc' \notin {"idle", "locked"})
            => dpc' = "assert_failed"]_vars

C4_Witness == dpc = "assert_failed" /\ klog = <<>> /\ uring_lock = REP


-----------------------------------------------------------------------------
(* The submission window as the ring holds it, read off ctx directly.       *)
(* Position i is the i-th ring position from the shared head.               *)

W_Flags128 == "SQE128" \in ctx.flags

\* tail - head, and the part of it one scan covers
W_N == U32(ctx.sq_tail - ctx.sq_head)
W_K == IF W_N < ctx.sq_entries THEN W_N ELSE ctx.sq_entries

\* the slot a ring position designates, through sq_array when there is one
W_SlotAt(p) ==
    IF "NO_SQARRAY" \in ctx.flags
    THEN p % ctx.sq_entries
    ELSE ctx.sq_array[p % ctx.sq_entries]

W_Slot(i) == W_SlotAt(U32(ctx.sq_head + i))
W_InRange(i) == W_Slot(i) < ctx.sq_entries
W_Unit(i) == IF W_Flags128 THEN 2 * W_Slot(i) ELSE W_Slot(i)
W_Op(i) == ctx.sq_sqes[W_Unit(i)].opcode
W_Valid(i) == W_InRange(i) /\ W_Op(i) < IORING_OP_LAST

\* a 128-byte opcode in a ring of 64-byte entries
W_Wide(i) == W_Valid(i) /\ W_Op(i) = IORING_OP_LAST - 1 /\ ~W_Flags128

W_Line(i) ==
    <<"sqe", W_Slot(i), W_Op(i), ctx.sq_sqes[W_Unit(i)].user_data,
      IF W_Flags128 THEN 1 ELSE 0, IF W_Flags128 THEN W_Unit(i) + 1 ELSE -1>>

RECURSIVE W_Lines(_, _)
\* the lines of positions i .. k-1, one per valid entry
W_Lines(i, k) ==
    IF i >= k THEN <<>>
    ELSE (IF W_Valid(i) THEN <<W_Line(i)>> ELSE <<>>) \o W_Lines(i + 1, k)

W_HasWide == \E i \in 0..(W_K - 1) : W_Wide(i)
W_FirstWide ==
    CHOOSE i \in 0..(W_K - 1) : W_Wide(i) /\ \A j \in 0..(i - 1) : ~W_Wide(j)

-----------------------------------------------------------------------------
(* C5..C10: the SQ scan *)

\* C5: with the shared SQ head equal to the tail, the report shows the count
\* line "SQEs: 0" and no submission entry line, whatever the flags, the
\* sq_array and the SQE memory hold.
C5_EmptyWindow ==
    (SqScanOver /\ ctx.sq_head = ctx.sq_tail)
        => (m[9] = <<"SQEs", 0>> /\ SqLines(m) = <<>>)

C5_Witness ==
    /\ rpc = "done" /\ m # <<>> /\ ctx.sq_head = ctx.sq_tail
    /\ ctx.sq_head = UINT_MAX
    /\ ctx.sq_sqes[0].opcode = IORING_OP_LAST - 1

\* C6 as stated: a window of N <= capacity entries gives exactly N entry
\* lines, the i-th for ring position head + i.
C6_ExactlyNLines ==
    (SqScanOver /\ W_N <= ctx.sq_entries)
        => (/\ Len(SqLines(m)) = W_N
            /\ \A i \in 1..W_N : /\ SqLines(m)[i][1] = "sqe"
                                 /\ SqLines(m)[i][2] = W_Slot(i - 1))

\* every position of the window designates a slot in range whose opcode is
\* known and is no 128-byte opcode on a ring of 64-byte entries
W_Plain == \A i \in 0..(W_N - 1) : W_Valid(i) /\ ~W_Wide(i)

\* C6 amended: a window of N <= capacity entries, each with a slot in range,
\* an opcode below IORING_OP_LAST and no 128-byte opcode unless the ring is
\* SQE128, gives exactly N entry lines, the i-th for ring position head + i.
C6_ExactlyNLinesOfPlainWindow ==
    (SqScanOver /\ W_N <= ctx.sq_entries /\ W_Plain)
        => (/\ Len(SqLines(m)) = W_N
            /\ \A i \in 1..W_N : SqLines(m)[i] = W_Line(i - 1))

C6_Witness ==
    /\ rpc = "done" /\ W_N = ctx.sq_entries /\ W_Plain
    /\ ctx.sq_head = UINT_MAX /\ ctx.sq_entries = 4
    /\ "NO_SQARRAY" \notin ctx.flags

\* C7: on a ring that is neither SQE128 nor mixed, the first 128-byte opcode
\* the scan meets gets one "invalid sqe" line, which is the last SQ line of
\* the report however many entries follow it in the window.
C7_InvalidWideStopsScan ==
    (SqScanOver /\ ctx.flags \cap {"SQE128", "SQE_MIXED"} = {} /\ W_HasWide)
        => SqLines(m) = W_Lines(0, W_FirstWide)
                        \o << <<"invalid_sqe", W_Slot(W_FirstWide)>> >>

C7_Witness ==
    /\ rpc = "done" /\ ctx.flags \cap {"SQE128", "SQE_MIXED"} = {} /\ W_HasWide
    /\ W_FirstWide >= 1 /\ W_Valid(0)
    /\ W_FirstWide + 1 < W_K /\ W_Valid(W_FirstWide + 1)

\* C8: in mixed mode, when the entry the scan is at is a 128-byte one whose
\* first half sits at the last ring position, the scan prints one
\* "corrupted sqe" line for it and leaves the loop.
C8_WrappingWideIsReported ==
    [][(/\ rpc = "sq_loop" /\ l.i < l.sq_entries
        /\ "SQE_MIXED" \in ctx.flags
        /\ LET p == U32(l.i + l.sq_head)
           IN  /\ p % ctx.sq_entries = ctx.sq_entries - 1
               /\ W_SlotAt(p) < ctx.sq_entries
               /\ ctx.sq_sqes[W_SlotAt(p)].opcode = IORING_OP_LAST - 1)
         => (/\ m' = Append(m, <<"corrupted_sqe", W_SlotAt(U32(l.i + l.sq_head))>>)
             /\ rpc' = "cq_count")]_vars

\* C9: an entry whose opcode is IORING_OP_LAST or more gets no line and the
\* scan goes on: in a window of in-range slots without 128-byte opcodes on
\* 64-byte entries the lines are those of the entries with a known opcode,
\* in order; no per-opcode table is ever indexed beyond its end.
C9_UnknownOpcodeSkipped ==
    /\ (SqScanOver /\ ~W_HasWide /\ \A i \in 0..(W_K - 1) : W_InRange(i))
          => SqLines(m) = W_Lines(0, W_K)
    /\ \A a \in acc : a[1] = "opdef" => a[2] < IORING_OP_LAST

C9_Witness ==
    /\ rpc = "done" /\ ~W_HasWide /\ \A i \in 0..(W_K - 1) : W_InRange(i)
    /\ \E i \in 0..(W_K - 2) : W_Op(i) >= IORING_OP_LAST /\ W_Valid(i + 1)

\* C10: a position whose sq_array value exceeds the mask gets no line and no
\* SQE read, and the scan goes on; without an sq_array the slot is the
\* position masked.  Stated for windows without 128-byte opcodes on 64-byte
\* entries: the lines are those of the in-range, known-opcode positions, and
\* every SQE unit read belongs to an in-range position.
C10_BadIndexSkipped ==
    (SqScanOver /\ ~W_HasWide)
        => (/\ SqLines(m) = W_Lines(0, W_K)
            /\ \A a \in acc :
                 /\ a[1] = "sq_sqes" =>
                      \E i \in 0..(W_K - 1) :
                          W_InRange(i) /\ a[2] \in {W_Unit(i), W_Unit(i) + 1}
                 /\ a[1] = "sq_array" => "NO_SQARRAY" \notin ctx.flags
            /\ ("NO_SQARRAY" \in ctx.flags
                /\ \A i \in 0..(W_K - 1) : W_Op(i) < IORING_OP_LAST) =>
                 \A k \in 1..W_K :
                     SqLines(m)[k][2] = U32(ctx.sq_head + k - 1) % ctx.sq_entries)

C10_Witness ==
    /\ rpc = "done" /\ ~W_HasWide /\ "NO_SQARRAY" \notin ctx.flags
    /\ \E i \in 0..(W_K - 2) : ~W_InRange(i) /\ W_Valid(i + 1)


-----------------------------------------------------------------------------
(* The completion window as the ring holds it, read off ctx directly.       *)
(* Offset k is the k-th slot from the shared head.                          *)

IsCqLine(x) == x[1] = "cqe"
CqLines(out) == SelectSeq(out, IsCqLine)

IsCqCount(x) == x[1] = "CQEs"

\* the reporter has printed its header and left the CQ loop
CqScanOver ==
    m # <<>> /\ rpc \notin {"call", "cursors", "sq_loop", "cq_count", "cq_loop"}

\* tail - head: the slots enqueued
CW_N == U32(ctx.cq_tail - ctx.cq_head)

\* the slot of ring position p, and whether the entry there is a 32-byte one
CW_SlotAt(p) == p % ctx.cq_entries
CW_WideAt(p) == ctx.cqes[CW_SlotAt(p)].flags = 1 \/ "CQE32" \in ctx.flags

RECURSIVE CW_BackToBack(_)
\* the entries from offset k on, each as wide as it says, end exactly at tail
CW_BackToBack(k) ==
    \/ k = CW_N
    \/ /\ k < CW_N
       /\ CW_BackToBack(k + (IF CW_WideAt(U32(ctx.cq_head + k)) THEN 2 ELSE 1))

\* no entry of the ring is a 32-byte one
CW_AllNormal ==
    /\ "CQE32" \notin ctx.flags
    /\ \A s \in DOMAIN ctx.cqes : ctx.cqes[s].flags = 0

-----------------------------------------------------------------------------
(* C11..C12: the CQ scan *)

\* C11: the CQ scan prints a 32-byte entry (IORING_CQE_F_32 in its flags, or
\* a CQE32 ring) with its two extra fields and advances its cursor by two
\* slots, prints any other entry without them and advances by one; over a
\* window of entries laid back to back the slots it consumes are tail - head.
C11_MixedWidthsConsumeWindow ==
    /\ [][(rpc = "cq_loop" /\ CqLoopCond(l.cq_head, l.cq_tail))
            => LET wide == CW_WideAt(l.cq_head)
                   cqe  == ctx.cqes[CW_SlotAt(l.cq_head)]
               IN  /\ Len(m') > Len(m)
                   /\ m'[Len(m) + 1] = <<"cqe", CW_SlotAt(l.cq_head), cqe.user_data,
                                         cqe.res, cqe.flags, IF wide THEN 1 ELSE 0>>
                   /\ l'.cq_head = U32(l.cq_head + (IF wide THEN 2 ELSE 1))]_vars
    /\ []((CqScanOver /\ CW_BackToBack(0))
            => U32(l.cq_head - ctx.cq_head) = CW_N)

\* C12: when no entry is a 32-byte one, the reporter prints tail - head
\* (mod 2^UintBits) completion lines for every head and tail, a tail that
\* has wrapped below the head included, and the "CQEs" count equals the
\* number of lines.
C12_CqLinesEqualEnqueued ==
    (CqScanOver /\ CW_AllNormal)
        => (/\ Len(CqLines(m)) = CW_N
            /\ SelectSeq(m, IsCqCount) = << <<"CQEs", Len(CqLines(m))>> >>)

-----------------------------------------------------------------------------
(* C13..C15: the tables and the SQ-poll lines *)

\* the lines of a report that start with `tag`, and where the first one is
Tagged(out, tag) == {k \in 1..Len(out) : out[k][1] = tag}
IndexOf(out, tag) == CHOOSE k \in Tagged(out, tag) : \A j \in Tagged(out, tag) : k <= j

\* the reporter has printed the SQ-poll lines and both tables
TablesPrinted ==
    m # <<>> /\ rpc \in {"poll_list", "ovf_lock", "ovf_list", "ovf_unlock",
                         "unlock", "done", "oops"}

\* slot i of the buffer table has a node and the node a buffer
BufOccupied(i) == ctx.buf_table[i] > 0

\* slot i of the file table resolves to a file
FileOccupied(i) == ctx.file_table[i] # 0

\* C13: a buffer table of K slots gives, right after the "UserBufs" header,
\* exactly K lines, the i-th for index i: address and length when the slot
\* has a node with a buffer, the "<none>" placeholder otherwise; so M lines
\* carry a buffer and K - M the placeholder.
C13_BufferTableOneLinePerSlot ==
    TablesPrinted =>
        LET ub == IndexOf(m, "UserBufs")
            K  == ctx.buf_table_nr
            M  == Cardinality({i \in 0..(K - 1) : BufOccupied(i)})
        IN  /\ Cardinality(Tagged(m, "UserBufs")) = 1
            /\ m[ub] = <<"UserBufs", K>>
            /\ Tagged(m, "buf") \cup Tagged(m, "buf_none") = (ub + 1)..(ub + K)
            /\ \A i \in 0..(K - 1) :
                 m[ub + 1 + i] = IF BufOccupied(i)
                                 THEN <<"buf", i, ctx.buf_table[i] * 4096,
                                        ctx.buf_table[i]>>
                                 ELSE <<"buf_none", i>>
            /\ Cardinality(Tagged(m, "buf")) = M
            /\ Cardinality(Tagged(m, "buf_none")) = K - M

C13_Witness ==
    /\ rpc = "done" /\ ctx.buf_table_nr = MaxSlots
    /\ \E i, j, k \in 0..(MaxSlots - 1) :
         /\ i < j /\ ctx.buf_table[i] = 0 /\ BufOccupied(j)
         /\ ctx.buf_table[k] = -1
    /\ Cardinality(Tagged(m, "buf_none")) >= 2

\* C14: a file table of K slots of which M resolve to a file gives the
\* header "UserFiles" showing K, then exactly M lines, those of the occupied
\* indices in increasing order, then the "UserBufs" header: an empty slot
\* gives no line.
C14_FileTableOnlyOccupied ==
    TablesPrinted =>
        LET uf == IndexOf(m, "UserFiles")
            ub == IndexOf(m, "UserBufs")
            K  == ctx.file_table_nr
            M  == Cardinality({i \in 0..(K - 1) : FileOccupied(i)})
        IN  /\ Cardinality(Tagged(m, "UserFiles")) = 1
            /\ m[uf] = <<"UserFiles", K>>
            /\ ub = uf + M + 1
            /\ \A k \in (uf + 1)..(ub - 1) :
                 /\ m[k][1] = "file"
                 /\ m[k][2] \in 0..(K - 1) /\ FileOccupied(m[k][2])
                 /\ m[k][3] = ctx.file_table[m[k][2]]
                 /\ k + 1 < ub => m[k][2] < m[k + 1][2]
            /\ Tagged(m, "file") = (uf + 1)..(ub - 1)

C14_Witness ==
    /\ rpc = "done" /\ ctx.file_table_nr = MaxSlots
    /\ ~FileOccupied(0) /\ FileOccupied(1) /\ FileOccupied(MaxSlots - 1)
    /\ Cardinality(Tagged(m, "file")) < MaxSlots

\* C15: every report that is not empty has the four SQ-poll lines once each,
\* in the order thread id, CPU, total time, work time; they carry -1, -1, 0,
\* 0 when SQPOLL is clear and when it is set but the thread pointer is NULL,
\* and the sq_data's task_pid and sq_cpu, the thread's CPU time and the
\* sq_data's work_time when SQPOLL is set and the thread is there.
C15_FourSqPollLines ==
    TablesPrinted =>
        LET t == IndexOf(m, "SqThread")
            live == "SQPOLL" \in ctx.flags /\ ctx.sq_data.thread # 0
        IN  /\ \A tag \in {"SqThread", "SqThreadCpu", "SqTotalTime", "SqWorkTime"} :
                 Cardinality(Tagged(m, tag)) = 1
            /\ m[t] = <<"SqThread", IF live THEN ctx.sq_data.task_pid ELSE -1>>
            /\ m[t + 1] = <<"SqThreadCpu", IF live THEN ctx.sq_data.sq_cpu ELSE -1>>
            /\ m[t + 2] = <<"SqTotalTime", IF live THEN ctx.sq_data.cpu_usec ELSE 0>>
            /\ m[t + 3] = <<"SqWorkTime", IF live THEN ctx.sq_data.work_time ELSE 0>>

\* a ring in SQ-poll mode whose thread has gone
C15_Witness ==
    /\ rpc = "done" /\ "SQPOLL" \in ctx.flags /\ ctx.sq_data.thread = 0
    /\ m[IndexOf(m, "SqThread")] = <<"SqThread", -1>>
    /\ ctx.sq_data.task_pid # -1

-----------------------------------------------------------------------------
(* C16: the sections after the SQ section *)

RECURSIVE R_CqLines(_, _)
\* the CQ entry lines of the ring for the cursors h and t
R_CqLines(h, t) ==
    IF ~CqLoopCond(h, t) THEN <<>>
    ELSE LET slot == AndMask(h, CqMask(ctx))
         IN  CqeLines(ctx, slot, ctx.cqes[slot])
             \o R_CqLines(CqAdvance(ctx, ctx.cqes[slot], h), t)

\* the SQ-poll thread is there to be read
R_SqPollLive == "SQPOLL" \in ctx.flags /\ ctx.sq_data.thread # 0

\* what a report of the ring holds from the "CQEs" line on: a function of
\* the ring alone, not of what the SQ scan met
R_AfterSq ==
    << <<"CQEs", U32(ctx.cq_tail - ctx.cq_head)>> >>
    \o R_CqLines(ctx.cq_head, ctx.cq_tail)
    \o << <<"SqThread", IF R_SqPollLive THEN ctx.sq_data.task_pid ELSE -1>>,
          <<"SqThreadCpu", IF R_SqPollLive THEN ctx.sq_data.sq_cpu ELSE -1>>,
          <<"SqTotalTime", IF R_SqPollLive THEN ctx.sq_data.cpu_usec ELSE 0>>,
          <<"SqWorkTime", IF R_SqPollLive THEN ctx.sq_data.work_time ELSE 0>>,
          <<"UserFiles", ctx.file_table_nr>> >>
    \o FileLines(ctx, 0)
    \o << <<"UserBufs", ctx.buf_table_nr>> >>
    \o BufLines(ctx, 0)
    \o << <<"PollList">> >>
    \o ShowPollLines(ctx, PollReqs(ctx, 0))
    \o << <<"CqOverflowList">> >>
    \o OverflowLines(ctx.cq_overflow_list)
    \o napi_show_fdinfo(ctx)

IsSqDiagnostic(x) == x[1] \in {"invalid_sqe", "corrupted_sqe"}

\* C16: an invalid or wrapping 128-byte entry ends the SQ section with its
\* one diagnostic line and nothing else: the report goes on with the CQ
\* section, the SQ-poll lines, both tables, the poll list, the overflow list
\* and the NAPI block, the same lines as for a ring whose SQ scan met nothing
\* wrong.
C16_SqErrorTruncatesOnlySq ==
    (rpc = "done" /\ m # <<>>)
        => LET n == Len(SqLines(m))
           IN  /\ SubSeq(m, 1, 9 + n) = SubSeq(m, 1, 9) \o SqLines(m)
               /\ SubSeq(m, 10 + n, Len(m)) = R_AfterSq
               /\ l.brk <=> (n > 0 /\ IsSqDiagnostic(SqLines(m)[n]))
               /\ \A k \in 1..(n - 1) : ~IsSqDiagnostic(SqLines(m)[k])

C16_Witness ==
    /\ rpc = "done" /\ l.brk
    /\ IsSqDiagnostic(SqLines(m)[Len(SqLines(m))])
    /\ ctx.cq_head # ctx.cq_tail /\ ctx.file_table_nr > 0 /\ ctx.buf_table_nr > 0
    /\ PollReqs(ctx, 0) # <<>> /\ ctx.cq_overflow_list # <<>>
    /\ "SQPOLL" \in ctx.flags

-----------------------------------------------------------------------------
(* C17: the sections of the dump *)

\* io_uring_dump_reqs has run to its end
DumpOver == dpc \in {"d_return", "done"} /\ dl.held

\* the lists whose nodes are printed with the "req" prefix
ReqLists == <<ctx.work_llist, ctx.retry_llist, ctx.fallback_llist, ctx.defer_list>>
ReqListNames == <<"work_llist", "retry_llist", "fallback_llist", "defer_list">>

\* what the dump holds for the rings, the lists and the overflow list when
\* they are absent or empty: nothing (the overflow list, which the
\* completion side changes, was empty when the dumper walked it if the
\* walk counted no entry)
EmptyListsSilent ==
    /\ ~ctx.rings => Tagged(klog, "SQ") \cup Tagged(klog, "CQ") = {}
    /\ \A k \in 1..4 : ReqLists[k] = <<>> => Tagged(klog, ReqListNames[k]) = {}
    /\ (\A k \in 1..4 : ReqLists[k] = <<>>) => Tagged(klog, "req") = {}
    /\ dl.count = 0 => Tagged(klog, "cq_overflow_list") = {}
    /\ PollReqs(ctx, 0) = <<>> =>
          Tagged(klog, "poll_req") \cup Tagged(klog, "task_work") = {}

\* C17 as stated: the dumper prints neither a header nor a line for the
\* rings when none are mapped, nor for the poll hash, a deferred-work list,
\* the defer list or the overflow list that holds no entry.
C17_EmptySectionsSilent ==
    DumpOver => (/\ EmptyListsSilent
                 /\ PollReqs(ctx, 0) = <<>> => Tagged(klog, "PollList") = {})

\* C17 amended: as above, except that the "PollList:" header is printed once
\* in every dump; with an empty poll hash no line follows under it.
C17_EmptySectionsSilentButPollHeader ==
    DumpOver => (/\ EmptyListsSilent
                 /\ Cardinality(Tagged(klog, "PollList")) = 1
                 /\ PollReqs(ctx, 0) = <<>> =>
                      \/ Len(klog) = IndexOf(klog, "PollList")
                      \/ klog[IndexOf(klog, "PollList") + 1][1] \in
                            {"work_llist", "retry_llist", "fallback_llist",
                             "defer_list", "cq_overflow_list"})

C17_Witness ==
    /\ dpc = "done" /\ dl.held /\ ~ctx.rings
    /\ PollReqs(ctx, 0) = <<>> /\ \A k \in 1..4 : ReqLists[k] = <<>>
    /\ ctx.cq_overflow_list = <<>>
    /\ klog = << <<"dump", 0>>, <<"nr_req_allocated", 7>>, <<"cancel_seq", 3>>,
                 <<"PollList">> >>

-----------------------------------------------------------------------------
(* C18: lock ordering *)

\* C18: the reporter and the dumper take completion_lock only while their
\* thread holds uring_lock, hold it only across the traversal of the overflow
\* list (not across the poll hash, the deferred-work lists or the defer
\* list) and have released it when the function returns.
C18_CompletionLockInsideMainLock ==
    /\ [](completion_lock = REP =>
             (uring_lock = REP /\ rpc \in {"ovf_list", "ovf_unlock"}))
    /\ [](completion_lock = DMP =>
             (uring_lock = DMP /\ dpc = "d_ovf_count"))
    /\ [][(completion_lock' = REP /\ completion_lock # REP)
            => (uring_lock = REP /\ rpc = "ovf_lock")]_vars
    /\ [][(completion_lock' = DMP /\ completion_lock # DMP)
            => (uring_lock = DMP /\ dpc = "d_ovf_lock")]_vars

\* the dumper holds completion_lock after the reporter has held and released it
C18_Witness ==
    /\ completion_lock = DMP /\ uring_lock = DMP /\ dpc = "d_ovf_count"
    /\ rpc = "done" /\ \E k \in 1..Len(m) : m[k] = <<"CqOverflowList">>
    /\ PollReqs(ctx, 0) # <<>> /\ ctx.defer_list # <<>>

-----------------------------------------------------------------------------
(* C19: array bounds of the SQ scan *)

\* the 64-byte units of ctx->sq_sqes
SqSqesUnits == ctx.sq_entries * (IF "SQE128" \in ctx.flags THEN 2 ELSE 1)

\* C19: every array read of the SQ scan is in range whatever the ring holds:
\* sq_array below sq_entries, the per-opcode tables below IORING_OP_LAST, and
\* every SQE unit, the trailing half of an entry printed as a 128-byte one
\* included, inside sq_sqes.
C19_ScanReadsInRange ==
    \A a \in acc :
        /\ a[1] = "sq_array" => a[2] \in 0..(ctx.sq_entries - 1)
        /\ a[1] = "opdef" => a[2] \in 0..(IORING_OP_LAST - 1)
        /\ a[1] = "sq_sqes" => a[2] \in 0..(SqSqesUnits - 1)

-----------------------------------------------------------------------------
(* C20: prandom_bytes_state *)

RECURSIVE R_State(_, _)
\* the generator state after k calls of prandom_u32_state from state s
R_State(s, k) == IF k = 0 THEN s ELSE prandom_u32_state(R_State(s, k - 1)).state

\* the k-th value the generator returns from state s, k >= 1
R_Out(s, k) == prandom_u32_state(R_State(s, k - 1)).out

\* the bytes buf[p .. p+3] read back as a u32 in the byte order of the CPU
R_Load(buf, p, big_endian) ==
    WordOf([j \in 1..SizeofU32 |->
               buf[p + (IF big_endian THEN SizeofU32 - j ELSE j - 1)]])

\* C20: prandom_bytes_state(state, buf, n) stores to buf[0..n-1] only, at
\* every moment of the call; when it returns every one of these bytes is
\* written, the generator has been advanced ceil(n/4) times, each full group
\* of four bytes holds one output of the generator in turn, and the last
\* n mod 4 bytes are the low bytes, least significant first, of the next
\* output; the call returns for every n.
C20_BytesStateFillsExactlyN ==
    /\ [](\A i \in DOMAIN rnd.buf : i >= rnd.n => rnd.buf[i] = Untouched)
    /\ [](rnd.pc = "done" =>
            LET full == rnd.n \div SizeofU32
                last == rnd.n % SizeofU32
            IN  /\ \A i \in 0..(rnd.n - 1) : rnd.buf[i] \in 0..255
                /\ rnd.calls = (rnd.n + SizeofU32 - 1) \div SizeofU32
                /\ rnd.state = R_State(rnd.s0, rnd.calls)
                /\ \A g \in 0..(full - 1) :
                     R_Load(rnd.buf, SizeofU32 * g, rnd.big_endian)
                        = R_Out(rnd.s0, g + 1)
                /\ \A j \in 0..(last - 1) :
                     rnd.buf[SizeofU32 * full + j]
                        = ByteOf(R_Out(rnd.s0, full + 1), j))
    /\ <>(rnd.pc = "done")

\* a call that fills a full group and then three bytes of one more output
C20_Witness ==
    /\ rnd.pc = "done" /\ rnd.n > SizeofU32 /\ rnd.n % SizeofU32 = 3
    /\ rnd.calls = 2
    /\ rnd.buf[rnd.n - 1] # rnd.buf[rnd.n - 2]
    /\ rnd.buf[rnd.n] = Untouched

-----------------------------------------------------------------------------
(* C21..C30 *)

\* C21: a reporter call whose trylock succeeded releases uring_lock before
\* it returns, whatever path the report took (the SQ scan stopped early, the
\* SQ-poll thread gone): the return is the step that follows the
\* mutex_unlock(), and at the return the thread holds neither uring_lock nor
\* completion_lock and is in no RCU read-side section.
C21_ReturnsWithNothingHeld ==
    /\ [](rpc = "done" => /\ uring_lock # REP
                          /\ completion_lock # REP
                          /\ l.rcu = 0)
    /\ [][(rpc' = "done" /\ rpc \notin {"call", "done"})
            => (rpc = "unlock" /\ uring_lock = REP /\ uring_lock' = NoOwner)]_vars
    /\ [](rpc \notin {"call", "done"} => uring_lock = REP)

\* a report whose SQ scan stopped early has returned
C21_Witness == rpc = "done" /\ m # <<>> /\ l.brk

\* the section of the report a line belongs to, by its format
SectionTags ==
    << {"SqMask", "SqHead", "SqTail", "CachedSqHead",
        "CqMask", "CqHead", "CqTail", "CachedCqTail"},
       {"SQEs", "sqe", "invalid_sqe", "corrupted_sqe"},
       {"CQEs", "cqe", "blank"},
       {"SqThread", "SqThreadCpu", "SqTotalTime", "SqWorkTime"},
       {"UserFiles", "file"},
       {"UserBufs", "buf", "buf_none"},
       {"PollList", "poll"},
       {"CqOverflowList", "ocqe"},
       {"NAPI_enabled", "NAPI_disabled", "NAPI_unknown", "napi_tracking",
        "napi_busy_poll_dt", "napi_prefer_busy_poll"} >>

SectionOf(x) == CHOOSE k \in 1..Len(SectionTags) : x[1] \in SectionTags[k]

\* the lines that are printed once per report: the cursors, the counts and
\* the headers of the sections
OncePerReport ==
    SectionTags[1] \cup SectionTags[4]
    \cup {"SQEs", "CQEs", "UserFiles", "UserBufs", "PollList", "CqOverflowList"}

\* the first lines of the adaptive-polling block
NapiHeads == {"NAPI_enabled", "NAPI_disabled", "NAPI_unknown"}

\* C22: the lines of a report come section by section in the order cursors,
\* SQ, CQ, SQ-poll thread, files, buffers, poll list, overflow list,
\* adaptive polling: at every moment no line of a later section precedes a
\* line of an earlier one; a report that has returned holds each cursor
\* line, count line and section header once, each section starts with its
\* header, and the adaptive-polling block is there once in a build with
\* CONFIG_NET_RX_BUSY_POLL.
C22_SectionsInOrder ==
    /\ \A i \in 1..Len(m) : \E k \in 1..Len(SectionTags) : m[i][1] \in SectionTags[k]
    /\ \A i \in 1..(Len(m) - 1) : SectionOf(m[i]) <= SectionOf(m[i + 1])
    /\ (rpc = "done" /\ m # <<>>) =>
          /\ \A t \in OncePerReport : Cardinality(Tagged(m, t)) = 1
          /\ \A t \in {"SQEs", "CQEs", "SqThread", "UserFiles", "UserBufs",
                       "PollList", "CqOverflowList"} :
                \A i \in 1..Len(m) :
                   SectionOf(m[i]) = SectionOf(<<t>>) => IndexOf(m, t) <= i
          /\ Cardinality(UNION {Tagged(m, t) : t \in NapiHeads})
                = IF ctx.config_net_rx_busy_poll THEN 1 ELSE 0

\* a report with entries in every section has returned
C22_Witness ==
    /\ rpc = "done"
    /\ \A t \in {"sqe", "cqe", "file", "buf", "poll", "ocqe", "NAPI_enabled"} :
          Tagged(m, t) # {}

\* C23: every turn of the CQ loop adds exactly one line to the report, for a
\* 16-byte entry and for a 32-byte one, and the report holds no empty line.
C23_OneLinePerCqe ==
    /\ [][(rpc = "cq_loop" /\ CqLoopCond(l.cq_head, l.cq_tail))
            => Len(m') = Len(m) + 1]_vars
    /\ [](Tagged(m, "blank") = {})

\* the lines a list of requests is to give: nothing when it is empty, else
\* its label and one "req" line per node, first node first, with the
\* node's own fields
R_ReqSection(name, list) ==
    IF list = <<>> THEN <<>>
    ELSE << <<name>> >>
         \o [k \in 1..Len(list) |->
               <<"req", list[k].opcode, list[k].flags, list[k].user_data,
                 list[k].refs, list[k].poll_refs,
                 IF list[k].tctx = 0 THEN -1 ELSE ctx.tasks[list[k].tctx].pid,
                 list[k].cancel_seq, list[k].cancel_seq_set, list[k].func>>]

\* the lines of the dump that belong to the lists and to the overflow count
IsListLine(x) == x[1] \in {"work_llist", "retry_llist", "fallback_llist",
                           "defer_list", "req", "cq_overflow_list"}

\* C24: the dump holds, after the poll list, the sections of work_llist,
\* retry_llist, fallback_llist and defer_list in this order and then the
\* overflow count; the section of a list with nodes is its label followed
\* by one request line per node in list order, each with the node's
\* opcode, flags, user_data, refs, poll_refs, cancel sequence and callback;
\* an empty list has no section.
C24_ListsInFixedOrder ==
    DumpOver =>
        LET want == R_ReqSection("work_llist", ctx.work_llist)
                    \o R_ReqSection("retry_llist", ctx.retry_llist)
                    \o R_ReqSection("fallback_llist", ctx.fallback_llist)
                    \o R_ReqSection("defer_list", ctx.defer_list)
                    \o (IF dl.count # 0 THEN << <<"cq_overflow_list", dl.count>> >>
                        ELSE <<>>)
        IN  /\ Len(klog) >= Len(want)
            /\ SubSeq(klog, Len(klog) - Len(want) + 1, Len(klog)) = want
            /\ SelectSeq(klog, IsListLine) = want

\* a dump of a ring with nodes on the retry list, the fallback list and the
\* defer list, two of them on one list, and an overflow count
C24_Witness ==
    /\ DumpOver
    /\ ctx.work_llist = <<>> /\ Len(ctx.retry_llist) = 2
    /\ Len(ctx.fallback_llist) = 1 /\ Len(ctx.defer_list) = 2
    /\ dl.count # 0

\* C25: the dumper counts the overflow list while it holds completion_lock,
\* during which the list does not change, so the count is the length of the
\* list when the lock was taken; it has released the lock when it prints;
\* it prints one line with the count when the count is not zero and nothing
\* when it is zero; no line of the dump shows an overflow entry.
C25_OverflowByCountOnly ==
    /\ [](dpc = "d_ovf_count" => completion_lock = DMP)
    /\ [][dpc = "d_ovf_count"
            => (/\ ctx'.cq_overflow_list = ctx.cq_overflow_list
                /\ dpc' = "d_ovf_print"
                     => (/\ dl'.count = Len(ctx.cq_overflow_list)
                         /\ completion_lock' = NoOwner
                         /\ klog' = klog))]_vars
    /\ [](dpc = "d_ovf_print" => completion_lock # DMP)
    /\ [][(dpc = "d_ovf_print" /\ dpc' # dpc)
            => klog' = klog \o (IF dl.count # 0
                                THEN << <<"cq_overflow_list", dl.count>> >>
                                ELSE <<>>)]_vars
    /\ [](/\ Tagged(klog, "ocqe") = {}
          /\ Cardinality(Tagged(klog, "cq_overflow_list")) <= 1
          /\ \A i \in Tagged(klog, "cq_overflow_list") :
                klog[i] = <<"cq_overflow_list", dl.count>>)

\* a dump that printed the count of one entry; the completion side has put
\* a second entry on the list since the count was taken
C25_Witness ==
    /\ dpc = "done" /\ dl.held
    /\ klog[Len(klog)] = <<"cq_overflow_list", 1>>
    /\ Len(ctx.cq_overflow_list) = 2

\* the dumper has printed the poll list
PollDumped == dl.held /\ dpc \in {"d_llists", "d_ovf_lock", "d_ovf_count",
                                  "d_ovf_print", "d_return", "done"}

\* the lines of the dump that belong to the poll list
IsPollLine(x) == x[1] \in {"poll_req", "task_work"}

\* the task work of the task that owns a request: none for a request
\* without a task context
R_WorksOf(req) == IF req.tctx = 0 THEN <<>> ELSE ctx.tasks[req.tctx].task_works

RECURSIVE R_PollSection(_)
\* the lines requests k.. of the poll hash are to give
R_PollSection(k) ==
    IF k > Len(PollReqs(ctx, 0)) THEN <<>>
    ELSE LET req == PollReqs(ctx, 0)[k]
         IN  << <<"poll_req", req.opcode, req.flags, req.user_data, req.refs,
                  req.poll_refs,
                  IF req.tctx = 0 THEN -1 ELSE ctx.tasks[req.tctx].pid,
                  req.cancel_seq, req.cancel_seq_set, req.func>> >>
             \o [j \in 1..Len(R_WorksOf(req)) |-> <<"task_work", R_WorksOf(req)[j]>>]
             \o R_PollSection(k + 1)

\* C26: under its "PollList" header the dump holds, for every request of
\* every bucket in bucket and chain order, one request line, followed by
\* one line per queued work item of the owning task, in queue order, when
\* the request has a task context and the task has work queued, and by
\* nothing otherwise; the line of a request without a task context shows
\* task -1.
C26_PollTraversal ==
    PollDumped =>
        /\ Cardinality(Tagged(klog, "PollList")) = 1
        /\ Cardinality(Tagged(klog, "poll_req")) = Len(PollReqs(ctx, 0))
        /\ SelectSeq(klog, IsPollLine) = R_PollSection(1)
        /\ LET p == IndexOf(klog, "PollList")
               n == Len(R_PollSection(1))
           IN  /\ Len(klog) >= p + n
               /\ SubSeq(klog, p + 1, p + n) = R_PollSection(1)
        /\ \A i \in Tagged(klog, "poll_req") :
              (klog[i][7] = -1) <=>
                 (\E k \in 1..Len(PollReqs(ctx, 0)) :
                     /\ PollReqs(ctx, 0)[k].tctx = 0
                     /\ PollReqs(ctx, 0)[k].user_data = klog[i][4])

\* the poll list of a dump holds a request whose task has two work items
\* queued, one whose task has none and one without a task context
C26_Witness ==
    /\ PollDumped
    /\ \E i \in Tagged(klog, "poll_req") : klog[i][7] = -1
    /\ Cardinality(Tagged(klog, "task_work")) = 2
    /\ Cardinality(Tagged(klog, "poll_req")) = 3

\* the overflow lines of a report
IsOcqeLine(x) == x[1] = "ocqe"

\* C27: the reporter walks the overflow list only while it holds
\* completion_lock; the list does not change during the walk, whatever the
\* completion side appends or removes under the lock; every turn of the
\* walk prints one line; and when the walk is over the report holds one
\* line per entry of the list, in list order.
C27_OverflowSnapshot ==
    /\ [](rpc \in {"ovf_list", "ovf_unlock"} => completion_lock = REP)
    /\ [][(rpc \in {"ovf_list", "ovf_unlock"})
            => (ctx'.cq_overflow_list = ctx.cq_overflow_list)]_vars
    /\ [][(rpc = "ovf_list" /\ rpc' = "ovf_list" /\ l' # l)
            => Len(m') = Len(m) + 1]_vars
    /\ [](rpc = "ovf_unlock"
            => SelectSeq(m, IsOcqeLine)
                 = [k \in 1..Len(ctx.cq_overflow_list) |->
                      <<"ocqe", ctx.cq_overflow_list[k].user_data,
                        ctx.cq_overflow_list[k].res,
                        ctx.cq_overflow_list[k].flags>>])

\* a report that printed two overflow entries has returned, and the
\* completion side has taken entries off the list since
C27_Witness ==
    /\ rpc = "done"
    /\ Cardinality(Tagged(m, "ocqe")) = 2
    /\ Len(ctx.cq_overflow_list) < 2

\* the positions of the reporter after the SQ-poll block
AfterSqPoll == {"thread_lines", "poll_list", "oops", "ovf_lock", "ovf_list",
                "ovf_unlock", "unlock", "done"}

\* C28: the reporter reads sq->thread inside the RCU read-side section; it
\* takes a reference, one, only on a pointer that is not NULL and while it
\* is still inside the section; it is outside the section at every other
\* point of the report, on both branches; it uses the task only while it
\* holds its reference, which it drops, once, before the thread lines; and
\* a thread that exits while the report runs is never touched after its
\* task_struct is freed.
C28_SqPollThreadReference ==
    /\ [][l'.tsk # l.tsk => (rpc = "sqpoll" /\ l'.rcu = 1)]_vars
    /\ [][sqt'.usage > sqt.usage
            => (/\ rpc = "sqpoll_test" /\ l.tsk # 0 /\ l.rcu = 1
                /\ sqt'.usage = sqt.usage + 1
                /\ l'.tsk_refs = 1)]_vars
    /\ [](rpc # "sqpoll_test" => l.rcu = 0)
    /\ [](rpc = "sqpoll_usec" => (l.tsk_refs = 1 /\ sqt.usage >= 1 /\ ~sqt.freed))
    /\ [](rpc # "sqpoll_usec" => l.tsk_refs = 0)
    /\ [][l'.tsk_refs < l.tsk_refs
            => (/\ rpc = "sqpoll_usec"
                /\ sqt'.usage = sqt.usage - 1
                /\ l'.tsk_refs = 0)]_vars
    /\ [](~l.uaf)
    /\ [](rpc \in AfterSqPoll
            => sqt.usage = IF sqt.released THEN 0 ELSE 1)

\* the thread exited while the reporter held its reference: the reporter
\* has read the CPU time and its put_task_struct() has freed the task
C28_Witness ==
    /\ rpc = "thread_lines"
    /\ l.tsk # 0 /\ l.sq_pid # -1
    /\ ctx.sq_data.thread = 0 /\ sqt.released /\ sqt.freed

RECURSIVE W_WideFrom(_)
\* the 128-byte entries of a mixed window whose entries lie back to back from
\* position i on: such an entry takes its position and the next one
W_WideFrom(i) ==
    IF i >= W_N THEN 0
    ELSE IF W_Wide(i) THEN 1 + W_WideFrom(i + 2) ELSE W_WideFrom(i + 1)

RECURSIVE W_BackToBack(_)
\* from position i on the window holds whole, valid entries: a 128-byte
\* entry has its second half inside the window
W_BackToBack(i) ==
    \/ i >= W_N
    \/ /\ W_Valid(i)
       /\ IF W_Wide(i) THEN i + 1 < W_N /\ W_BackToBack(i + 2)
          ELSE W_BackToBack(i + 1)

\* C29: on a ring with SQE_MIXED every position the SQ scan examines lies in
\* the window from head to tail, and a scan that ran to its end over a
\* window of whole entries, w of them 128-byte ones, has printed
\* tail - head - w entry lines.
C29_MixedScanStaysInWindow ==
    /\ [][(rpc = "sq_loop" /\ l.i < l.sq_entries /\ Has(ctx, "SQE_MIXED"))
            => U32(l.i + l.sq_head - ctx.sq_head) < W_N]_vars
    /\ []((/\ SqScanOver /\ ~l.brk /\ Has(ctx, "SQE_MIXED")
           /\ W_N <= ctx.sq_entries /\ W_BackToBack(0))
            => Len(SqLines(m)) = W_N - W_WideFrom(0))

\* C30: whatever the head, the tail and the 32-byte flags of the CQ ring
\* are, the CQ loop comes to its end, and while it runs the number of its
\* turns so far (one entry line each) is at most tail - head modulo
\* 2^UintBits.
C30_CqLoopTerminates ==
    /\ [](Len(CqLines(m)) <= U32(ctx.cq_tail - ctx.cq_head))
    /\ (rpc = "cq_loop") ~> (rpc = "sqpoll")

-----------------------------------------------------------------------------
(* C31..C32 *)

\* the reporter has left its poll-list section
PollListShown == rpc \in {"ovf_lock", "ovf_list", "ovf_unlock", "unlock", "done"}

\* C31: the reporter's poll-list section never dereferences the task context
\* of a request that has none, and it prints one line for every request of
\* the poll hash, the requests without a task context included, as the dumper
\* prints one for each of them.
C31_ReporterToleratesNoTctx ==
    /\ rpc # "oops"
    /\ (PollListShown /\ m # <<>>)
          => Cardinality(Tagged(m, "poll")) = Len(PollReqs(ctx, 0))
    /\ (PollDumped /\ rpc = "done" /\ m # <<>>)
          => Cardinality(Tagged(m, "poll")) = Cardinality(Tagged(klog, "poll_req"))

RECURSIVE W_MixedLines(_)
\* the lines of a mixed window of whole entries from position i on: one per
\* entry, a 128-byte entry with its second half read from the next unit
W_MixedLines(i) ==
    IF i >= W_N THEN <<>>
    ELSE IF W_Wide(i)
    THEN << <<"sqe", W_Slot(i), W_Op(i), ctx.sq_sqes[W_Unit(i)].user_data, 1,
              W_Unit(i) + 1>> >> \o W_MixedLines(i + 2)
    ELSE <<W_Line(i)>> \o W_MixedLines(i + 1)

\* no 128-byte entry of the window starts at the last position of the ring
W_NoWideAtRingEnd ==
    \A i \in 0..(W_N - 1) :
        W_Wide(i) => U32(ctx.sq_head + i) % ctx.sq_entries # ctx.sq_entries - 1

\* C32: on a ring with SQE_MIXED, a window of whole entries in which no
\* 128-byte entry crosses the end of the ring is reported without a
\* "corrupted sqe" line and with the line of every one of its entries, in
\* order, whatever the head is and however 64-byte and 128-byte entries mix.
C32_NoFalseCorruption ==
    (/\ SqScanOver /\ Has(ctx, "SQE_MIXED") /\ W_N <= ctx.sq_entries
     /\ W_BackToBack(0) /\ W_NoWideAtRingEnd)
        => /\ Tagged(m, "corrupted_sqe") = {}
           /\ Len(SqLines(m)) >= Len(W_MixedLines(0))
           /\ SubSeq(SqLines(m), 1, Len(W_MixedLines(0))) = W_MixedLines(0)

-----------------------------------------------------------------------------
(* Properties: C33..C39 *)

C34_EventsListedOrFreed ==
    [][(fw.prod.pc \in {"hdb_add", "qd_add"} /\ fw'.prod.pc = "idle")
          => \/ /\ OnList(fw', fw.prod.fwevt)
                /\ fw'.ev[fw.prod.fwevt].work = "pending"
             \/ ~fw'.ev[fw.prod.fwevt].alive]_vars

\* the removal order of a cleanup is the order of addition
OldestFirst(removed) ==
    \A i, j \in 1..Len(removed) : i < j => removed[i] < removed[j]

\* what the cleanup leaves of the current event when it only discards it
OnlyDiscards ==
    /\ fw'.cl.pc = "done"
    /\ fw'.ev[fw.current_event].discard
    /\ fw'.list = fw.list
    /\ \A s \in Slots : /\ fw'.ev[s].ref = fw.ev[s].ref
                        /\ fw'.ev[s].work = fw.ev[s].work

C36_HostTagRoundTrip ==
    /\ \A c \in Cmds :
          (io.rq[c].started /\ io.rq[c].priv.in_lld_scope = 0) =>
             LET r == mpi3mr_host_tag_for_scmd(io, c)
             IN  IF c[1] >= io.num_op_reply_q \/ c[2] >= io.max_host_ios
                 THEN /\ r.ret = MPI3MR_HOSTTAG_INVALID
                      /\ r.io = io
                 ELSE /\ r.ret = c[2] + 1
                      /\ r.ret \in 1..io.max_host_ios
                      /\ r.io.rq[c].priv.in_lld_scope = 1
                      /\ mpi3mr_scmd_from_host_tag(r.io, r.ret, c[1]) = c
    /\ \A c \in InScope(io) :
          /\ io.rq[c].priv.host_tag = c[2] + 1
          /\ mpi3mr_scmd_from_host_tag(io, io.rq[c].priv.host_tag,
                                       io.rq[c].priv.req_q_idx) = c
    /\ \A c \in Cmds :
          (io.rq[c].started /\ io.rq[c].priv.host_tag = MPI3MR_HOSTTAG_INVALID)
             => mpi3mr_scmd_from_host_tag(io, c[2] + 1, c[1]) = NoCmd
    /\ \A host_tag \in (0..(MaxTags + 1)) \cup {MPI3MR_HOSTTAG_INVALID},
          qidx \in 0..(NumHwq - 1) :
          host_tag > io.max_host_ios
             => mpi3mr_scmd_from_host_tag(io, host_tag, qidx) = NoCmd

\* a reply has found a command by its host tag and taken it out of driver
\* scope, another command, of a later tag, is in scope, and commands of a
\* queue or a tag the adapter does not serve have been refused
C36_Witness ==
    /\ \E c \in Cmds :
          /\ io.rq[c].started /\ io.rq[c].done = 1
          /\ io.rq[c].priv.host_tag = MPI3MR_HOSTTAG_INVALID
    /\ \E c \in InScope(io) : io.rq[c].priv.host_tag = c[2] + 1 /\ c[2] > 0
    /\ io.fl.pc = "idle"

\* the host byte of a SCSI result
host_byte(result) == (result \div (2 ^ 16)) % 256

\* C37: when mpi3mr_flush_host_io returns, every command that was in driver
\* scope when it started has been completed once more, with host byte
\* DID_RESET, every other request is as it was, no command is in driver scope,
\* no chain-bitmap bit of a flushed command is set, and flush_io_count is the
\* number of commands that were in scope; no command is completed twice by
\* the call
C37_FlushReturnsScopeOnce ==
    io.fl.pc = "done" =>
        /\ \A c \in Cmds : io.rq[c].done <= io.fl.before[c].done + 1
        /\ \A c \in io.fl.scope0 :
              /\ io.rq[c].done = io.fl.before[c].done + 1
              /\ host_byte(io.rq[c].result) = DID_RESET
              /\ io.fl.before[c].priv.chain_idx >= 0
                    => io.fl.before[c].priv.chain_idx \notin io.chain_bitmap
              /\ io.fl.before[c].priv.meta_chain_idx >= 0
                    => io.fl.before[c].priv.meta_chain_idx \notin io.chain_bitmap
        /\ \A c \in Cmds \ io.fl.scope0 : io.rq[c] = io.fl.before[c]
        /\ InScope(io) = {}
        /\ io.flush_io_count = Cardinality(io.fl.scope0)

\* a flush has returned that found one command in scope, holding a chain
\* frame for its data and one for its metadata, and one started request that
\* was not in scope
C37_Witness ==
    /\ io.fl.pc = "done"
    /\ io.flush_io_count = 1
    /\ \E c \in io.fl.scope0 :
          /\ io.fl.before[c].priv.chain_idx >= 0
          /\ io.fl.before[c].priv.meta_chain_idx >= 0
    /\ \E c \in Cmds \ io.fl.scope0 : io.rq[c].started

\* C38: hi6250_stub_clk_hw_get returns EINVAL for every index that is not
\* below HI6250_CLK_STUB_NUM and the clock of that index of the table
\* otherwise
C38_HwGetChecksIndex ==
    clk.op = "hw_get" =>
        IF clk.idx >= HI6250_CLK_STUB_NUM
        THEN clk.hw = [err |-> "EINVAL", idx |-> -1]
        ELSE /\ clk.hw = [err |-> "none", idx |-> clk.idx]
             /\ clk.hw.idx \in DOMAIN hi6250_stub_clks

\* the first index past the table was asked for and refused
C38_Witness ==
    /\ clk.op = "hw_get"
    /\ clk.idx = HI6250_CLK_STUB_NUM
    /\ clk.hw.err = "EINVAL"

\* C39: hi6250_stub_clk_recalc_rate indexes the frequency table of its clock
\* below the length of that table, whatever the 4-bit frequency id
C39_FreqIdWithinTable ==
    clk.op = "recalc_rate" =>
        clk.freq_id < Len(hi6250_stub_clks[clk.id].freqs)

=============================================================================
